---------------------------- MODULE Spec2Model ----------------------------
(***************************************************************************)
(* Model of the local exchange simulation and accounting core of the       *)
(* Kalshi crypto trading bot: fee_calculator, position_tracker,            *)
(* risk_manager, order_manager, paper_engine and orderbook.                *)
(*                                                                         *)
(* Money is kept in integer cents.  Prices are integer cents (the code     *)
(* holds price_cents / 100.0 in a float).  Quantities the code computes by *)
(* division (avg_entry_price, and the P&L figures derived from it) are     *)
(* exact rationals <<numerator, denominator>> in cents.  The code's        *)
(* explicit conversions (math.ceil, int(), round()) are modelled by what   *)
(* they return on the modelled domain.                                     *)
(***************************************************************************)
EXTENDS Integers, Sequences, FiniteSets, TLC

VARIABLES
    \* --- calculate_fee under test (pure function: inputs and result) ---
    fee_in,             \* [contracts, price, is_maker] handed to calculate_fee
    fee_out,            \* fee in cents returned by calculate_fee, -1 before the call
    \* --- PositionTracker ---
    positions,          \* _positions: ticker -> PositionState (only tickers seen)
    trade_history,      \* _trade_history: sequence of TradeRecord
    daily_reset_date,   \* _daily_reset_date: 0 stands for "" (never reset)
    daily_pnl,          \* _daily_pnl, rational cents
    weekly_pnl,         \* _weekly_pnl, rational cents
    total_fees_paid,    \* _total_fees_paid, cents
    today,              \* the UTC date datetime.now() reports, as a day number
    \* --- OrderBookManager ---
    books,              \* _books: ticker -> LocalOrderBook [yes_bids, no_bids]
    \* --- PaperEngine ---
    resting,            \* _resting: RestingPaperOrder records in insertion order
    fills,              \* _fills: every Fill the engine created
    fill_count,         \* _fill_count
    total_maker_orders_placed,
    total_maker_orders_filled,
    total_maker_orders_expired,
    total_maker_orders_cancelled,
    next_order_id,      \* the next fresh uuid of an order id
    now,                \* time.time(), seconds
    \* --- RiskManager ---
    kill_switch_active, \* _kill_switch_active
    manual_override,    \* _manual_override
    exchange_open,      \* _exchange_open
    order_manager_set,  \* _order_manager is not None
    call,               \* the last RiskManager call: what it was given and returned
    \* --- OrderManager ---
    orders,             \* _orders: Order records in insertion order
    \* --- strategies and the exchange ---
    approved_by,        \* strategy -> proposals filter approved, not yet placed
    exchange_orders,    \* orders the exchange holds, with what is left to fill
    inflight,           \* the KalshiClient request an OrderManager call is awaiting
    returned            \* what the last live OrderManager call gave its caller

feeVars == <<fee_in, fee_out>>
trackerVars == <<positions, trade_history, daily_reset_date, daily_pnl,
                 weekly_pnl, total_fees_paid>>
paperVars == <<resting, fills, fill_count, total_maker_orders_placed,
               total_maker_orders_filled, total_maker_orders_expired,
               total_maker_orders_cancelled, next_order_id>>
riskVars == <<kill_switch_active, manual_override, exchange_open, order_manager_set>>
liveVars == <<inflight, returned>>
gateVars == <<riskVars, call, orders, approved_by, exchange_orders, liveVars>>
vars == <<feeVars, trackerVars, today, books, paperVars, now, gateVars>>

----------------------------------------------------------------------------
(* Bounds of the model *)

MaxFeeContracts == 100      \* calculate_fee is applied to 1..MaxFeeContracts contracts
MaxLedgerFills == 2         \* fills fed to update_from_fill in one behaviour of SpecLedger
MaxDay == 2                 \* UTC dates 1..MaxDay
MaxPaperOrders == 1         \* maker orders placed in one behaviour of SpecPaper
MaxPaperFills == 1          \* fills already created when a taker order may still arrive
MaxKillFills == 2           \* fills notified in one behaviour of SpecKill
MaxGateFills == 2           \* fills notified in one behaviour of SpecGate
MaxGateOrders == 1          \* orders placed in one behaviour of SpecGate
MaxPipelineOrders == 2      \* orders placed in one behaviour of SpecPipeline
MaxNow == 61                \* the clock runs from 0 to MaxNow seconds
MaxLiveOrders == 2          \* orders the exchange accepts in one behaviour of SpecLive
MaxDepthLevels == 3         \* get_depth is asked for 1..MaxDepthLevels levels
MaxPlaceOrders == 2         \* orders placed in one behaviour of SpecPlace, of SpecPaperMode
MaxQueueOrders == 2          \* maker orders placed in one behaviour of SpecQueue
MaxSpreadContracts == 4     \* min_profitable_spread is applied to 1..MaxSpreadContracts contracts

----------------------------------------------------------------------------
(* Arithmetic helpers: exact rationals <<n, d>> with d > 0, in lowest terms *)

Abs(x) == IF x < 0 THEN -x ELSE x

Min(a, b) == IF a <= b THEN a ELSE b

Max(a, b) == IF a >= b THEN a ELSE b

RECURSIVE GCD(_, _)
GCD(a, b) == IF b = 0 THEN a ELSE GCD(b, a % b)

RNorm(n, d) ==
    LET g == GCD(Abs(n), Abs(d))
        s == IF d < 0 THEN -1 ELSE 1
    IN  IF n = 0 THEN <<0, 1>> ELSE <<(s * n) \div g, (s * d) \div g>>

R(n) == <<n, 1>>

RAdd(a, b) == RNorm(a[1] * b[2] + b[1] * a[2], a[2] * b[2])

RSub(a, b) == RNorm(a[1] * b[2] - b[1] * a[2], a[2] * b[2])

RMul(a, b) == RNorm(a[1] * b[1], a[2] * b[2])

RDiv(a, b) == RNorm(a[1] * b[2], a[2] * b[1])

RLt(a, b) == a[1] * b[2] < b[1] * a[2]

RLe(a, b) == a[1] * b[2] <= b[1] * a[2]

----------------------------------------------------------------------------
(* execution/fee_calculator.py *)

TAKER_COEFF_E4 == 700       \* TAKER_COEFF = 0.07, in units of 1e-4
MAKER_COEFF_E4 == 175       \* MAKER_COEFF = 0.0175, in units of 1e-4

\* fee * 100 of calculate_fee: coeff * contracts * price * (1 - price) * 100,
\* with price in cents; the result is in units of 1e-6 cent.
FeeCentsRawE6(contracts, price, is_maker) ==
    (IF is_maker THEN MAKER_COEFF_E4 ELSE TAKER_COEFF_E4)
        * contracts * price * (100 - price)

\* A rounding that pushes an exact whole number of cents to the next cent.
CeilCentsNextCent(rawE6) == (rawE6 \div 1000000) + 1

\* math.ceil(fee_cents_raw - 1e-9): the epsilon is 0.001 of the 1e-6 cent unit,
\* so a whole number of cents stays and anything above it goes up.
CeilCents(rawE6) == (rawE6 + 999999) \div 1000000

\* calculate_fee(contracts, price_dollars, is_maker), in cents:
\* max(fee_cents, 1) / 100 dollars.
calculate_fee(contracts, price, is_maker) ==
    Max(CeilCents(FeeCentsRawE6(contracts, price, is_maker)), 1)

\* calculate_net_profit(buy_price, sell_price, contracts, is_maker_buy,
\* is_maker_sell), in cents.
calculate_net_profit(buy_price, sell_price, contracts, is_maker_buy, is_maker_sell) ==
    (sell_price - buy_price) * contracts
        - calculate_fee(contracts, buy_price, is_maker_buy)
        - calculate_fee(contracts, sell_price, is_maker_sell)

\* calculate_fee at a price in half cents (price - spread / 2 falls between
\* two cents when the spread is odd), in cents: coeff * contracts * p * (1 - p)
\* * 100 is coeff_e4 * contracts * h * (200 - h) / 4e6 for p = h / 200.
calculate_fee_half(contracts, half_cents, is_maker) ==
    Max((((IF is_maker THEN MAKER_COEFF_E4 ELSE TAKER_COEFF_E4)
            * contracts * half_cents * (200 - half_cents)) + 3999999) \div 4000000, 1)

\* calculate_net_profit at prices in half cents, in half cents.
NetProfitHalf(buy_half, sell_half, contracts, is_maker) ==
    (sell_half - buy_half) * contracts
        - 2 * calculate_fee_half(contracts, buy_half, is_maker)
        - 2 * calculate_fee_half(contracts, sell_half, is_maker)

\* spread_cents = max(1, math.ceil(approx_total_fee * 100 / contracts)) with
\* approx_total_fee = 2 * coeff * contracts * price * (1 - price)
SpreadStart(price, is_maker) ==
    Max(((2 * (IF is_maker THEN MAKER_COEFF_E4 ELSE TAKER_COEFF_E4)
            * price * (100 - price)) + 999999) \div 1000000, 1)

\* The exact ties (net profit of exactly zero cents) at which the double
\* that calculate_net_profit returns is not above zero: <<price, contracts,
\* is_maker, spread_cents>>.  At every other tie the loop meets with up to
\* 200 contracts the rounding of price - half_spread, price + half_spread and
\* the two subtractions leaves a double a few 1e-18 above zero.
TiesRoundedDown ==
    { <<t[1], t[2], mk, t[3]>> :
        t \in {<<1, 1, 4>>, <<1, 2, 2>>, <<1, 4, 1>>, <<2, 1, 2>>, <<3, 2, 1>>,
               <<4, 2, 1>>, <<5, 2, 1>>} \cup {<<q, 1, 2>> : q \in 6..11},
        mk \in BOOLEAN }
    \cup
    { <<t[1], t[2], FALSE, t[3]>> :
        t \in {<<5, 3, 1>>, <<5, 4, 1>>, <<17, 1, 3>>}
              \cup {<<q, 2, 2>> : q \in 9..11} \cup {<<q, 1, 4>> : q \in 20..23}
              \cup {<<q, 2, 3>> : q \in 21..23} }

\* "if net > 0" on the double of calculate_net_profit, net being the exact
\* profit in half cents: the sign of the exact profit, and at an exact tie
\* the sign of the rounding error.
NetPositive(price, contracts, is_maker, spread_cents, net) ==
    \/ net > 0
    \/ net = 0 /\ <<price, contracts, is_maker, spread_cents>> \notin TiesRoundedDown

\* The loop of min_profitable_spread from spread_cents on, steps iterations
\* done: spread is the result in cents and steps the number of iterations it
\* took (101 when the loop ran out and the fallback returned).
RECURSIVE SpreadSearch(_, _, _, _, _)
SpreadSearch(price, contracts, is_maker, spread_cents, steps) ==
    IF steps = 100 THEN [spread |-> spread_cents, steps |-> 101]
    ELSE LET buy_half == Max(2, 2 * price - spread_cents)
             sell_half == Min(198, 2 * price + spread_cents)
         IN  IF NetPositive(price, contracts, is_maker, spread_cents,
                            NetProfitHalf(buy_half, sell_half, contracts, is_maker))
             THEN [spread |-> spread_cents, steps |-> steps + 1]
             ELSE SpreadSearch(price, contracts, is_maker, spread_cents + 1, steps + 1)

\* min_profitable_spread(price_dollars, contracts, is_maker), price in cents
min_profitable_spread(price, contracts, is_maker) ==
    SpreadSearch(price, contracts, is_maker, SpreadStart(price, is_maker), 0)

ApplySpread ==
    /\ fee_out.steps = 0
    /\ fee_out' = min_profitable_spread(fee_in.price, fee_in.contracts, fee_in.is_maker)
    /\ UNCHANGED <<fee_in, trackerVars, today, books, paperVars, now, gateVars>>

ApplyFee ==
    /\ fee_out = -1
    /\ fee_out' = calculate_fee(fee_in.contracts, fee_in.price, fee_in.is_maker)
    /\ UNCHANGED <<fee_in, trackerVars, today, books, paperVars, now, gateVars>>

----------------------------------------------------------------------------
(* execution/position_tracker.py *)

\* PositionState(ticker=ticker): the dataclass defaults.
NewPositionState ==
    [net_contracts |-> 0, avg_entry_price |-> R(0), current_market_price |-> R(0),
     unrealized_pnl |-> R(0), realized_pnl |-> R(0), fees_paid |-> 0,
     total_bought |-> 0, total_sold |-> 0]

\* Fill.price_dollars: the price of the fill's own side, in cents.
PriceCents(fill) == IF fill.side = "yes" THEN fill.yes_price ELSE fill.no_price

\* The position of fill.ticker as update_from_fill sees it: created on first use.
PositionOf(ticker) ==
    IF ticker \in DOMAIN positions THEN positions[ticker] ELSE NewPositionState

\* The branch of update_from_fill the fill takes on position pos:
\* [net, avg] are the new net_contracts and avg_entry_price, booked says whether
\* the branch adds pnl - fee to realized_pnl, _daily_pnl and _weekly_pnl, and
\* pnl is its gross P&L.
FillBranch(pos, fill) ==
    LET price == R(PriceCents(fill))
        yes_equiv == R(100 - PriceCents(fill))
        contracts == fill.count
        net == pos.net_contracts
        avg == pos.avg_entry_price
    IN  IF fill.side = "yes" /\ fill.action = "buy" THEN
            IF net >= 0 THEN
                \* adding to a long position
                LET total_cost == RAdd(RMul(avg, R(net)), RMul(price, R(contracts)))
                IN  [net |-> net + contracts,
                     avg |-> IF net + contracts # 0
                             THEN RDiv(total_cost, R(net + contracts)) ELSE R(0),
                     booked |-> FALSE, pnl |-> R(0)]
            ELSE
                \* closing a short position
                LET closing == Min(contracts, Abs(net))
                IN  [net |-> net + contracts,
                     avg |-> IF net + contracts > 0 THEN price ELSE avg,
                     booked |-> TRUE, pnl |-> RMul(RSub(avg, price), R(closing))]
        ELSE IF fill.side = "yes" THEN
            IF net > 0 THEN
                LET closing == Min(contracts, net)
                IN  [net |-> net - contracts, avg |-> avg,
                     booked |-> TRUE, pnl |-> RMul(RSub(price, avg), R(closing))]
            ELSE IF Abs(net) > 0 THEN
                \* adding to a short
                LET total_cost == RAdd(RMul(avg, R(Abs(net))), RMul(price, R(contracts)))
                IN  [net |-> net - contracts,
                     avg |-> RDiv(total_cost, R(Abs(net - contracts))),
                     booked |-> FALSE, pnl |-> R(0)]
            ELSE
                [net |-> net - contracts, avg |-> price, booked |-> FALSE, pnl |-> R(0)]
        ELSE IF fill.action = "buy" THEN
            \* NO side: buying NO = selling YES equivalent
            IF net > 0 THEN
                LET closing == Min(contracts, net)
                IN  [net |-> net - contracts,
                     avg |-> IF net - contracts < 0 THEN yes_equiv ELSE avg,
                     booked |-> TRUE, pnl |-> RMul(RSub(yes_equiv, avg), R(closing))]
            ELSE
                [net |-> net - contracts,
                 avg |-> IF net - contracts < 0 THEN yes_equiv ELSE avg,
                 booked |-> FALSE, pnl |-> R(0)]
        ELSE
            [net |-> net + contracts,
             avg |-> IF net + contracts > 0 THEN yes_equiv ELSE avg,
             booked |-> FALSE, pnl |-> R(0)]

\* TradeRecord appended by update_from_fill; date is the day of its timestamp.
TradeRecordOf(fill, fee, strategy) ==
    [date |-> today, ticker |-> fill.ticker, side |-> fill.side, action |-> fill.action,
     contracts |-> fill.count, price |-> PriceCents(fill), fee |-> fee,
     is_maker |-> ~fill.is_taker, strategy |-> strategy]

\* A ledger that keeps the position of the last fill's market only.
update_from_fill_forgetting(fill, strategy) ==
    LET pos == PositionOf(fill.ticker)
        fee == calculate_fee(fill.count, PriceCents(fill), ~fill.is_taker)
        b == FillBranch(pos, fill)
        net_pnl == RSub(b.pnl, R(fee))
    IN  /\ positions' = [t \in {fill.ticker} |->
                            [pos EXCEPT !.fees_paid = @ + fee,
                                        !.net_contracts = b.net,
                                        !.avg_entry_price = b.avg]]
        /\ total_fees_paid' = total_fees_paid + fee
        /\ daily_pnl' = IF b.booked THEN RAdd(daily_pnl, net_pnl) ELSE daily_pnl
        /\ weekly_pnl' = IF b.booked THEN RAdd(weekly_pnl, net_pnl) ELSE weekly_pnl
        /\ trade_history' = Append(trade_history, TradeRecordOf(fill, fee, strategy))
        /\ UNCHANGED daily_reset_date

\* PositionTracker.update_from_fill(fill, strategy)
update_from_fill(fill, strategy) ==
    LET pos == PositionOf(fill.ticker)
        fee == calculate_fee(fill.count, PriceCents(fill), ~fill.is_taker)
        b == FillBranch(pos, fill)
        net_pnl == RSub(b.pnl, R(fee))
        buys == (fill.side = "yes") = (fill.action = "buy")
        newpos == [pos EXCEPT
                     !.fees_paid = @ + fee,
                     !.net_contracts = b.net,
                     !.avg_entry_price = b.avg,
                     !.realized_pnl = IF b.booked THEN RAdd(@, net_pnl) ELSE @,
                     !.total_bought = IF buys THEN @ + fill.count ELSE @,
                     !.total_sold = IF buys THEN @ ELSE @ + fill.count]
    IN  /\ positions' = [t \in DOMAIN positions \cup {fill.ticker} |->
                            IF t = fill.ticker THEN newpos ELSE positions[t]]
        /\ total_fees_paid' = total_fees_paid + fee
        /\ daily_pnl' = IF b.booked THEN RAdd(daily_pnl, net_pnl) ELSE daily_pnl
        /\ weekly_pnl' = IF b.booked THEN RAdd(weekly_pnl, net_pnl) ELSE weekly_pnl
        /\ trade_history' = Append(trade_history, TradeRecordOf(fill, fee, strategy))
        /\ UNCHANGED daily_reset_date

\* PositionTracker.update_market_prices(prices): prices maps tickers to the
\* YES price in cents; a ticker without a position is skipped, a position
\* without a price is left as it is.
update_market_prices(prices) ==
    /\ positions' =
          [t \in DOMAIN positions |->
             IF t \notin DOMAIN prices THEN positions[t]
             ELSE LET pos == positions[t]
                      price == R(prices[t])
                  IN  [pos EXCEPT
                         !.current_market_price = price,
                         !.unrealized_pnl =
                            IF pos.net_contracts > 0
                            THEN RMul(RSub(price, pos.avg_entry_price), R(pos.net_contracts))
                            ELSE IF pos.net_contracts < 0
                            THEN RMul(RSub(pos.avg_entry_price, price),
                                      R(Abs(pos.net_contracts)))
                            ELSE R(0)]]
    /\ UNCHANGED <<trade_history, daily_reset_date, daily_pnl, weekly_pnl,
                   total_fees_paid>>

\* A reconciliation that adds the exchange's count to the local one.
ReconciledCountAdded(local_count, api_count) == local_count + api_count

\* if local.net_contracts != api_count: local.net_contracts = api_count
ReconciledCount(local_count, api_count) ==
    IF local_count # api_count THEN api_count ELSE local_count

\* The loop of sync_with_exchange over resp.market_positions, entries
\* [market_ticker, position]: a missing position is created, then its
\* net_contracts is reconciled.
RECURSIVE SyncedPositions(_, _)
SyncedPositions(local, market_positions) ==
    IF market_positions = <<>> THEN local
    ELSE LET api_pos == Head(market_positions)
             ticker == api_pos.market_ticker
             pos == IF ticker \in DOMAIN local THEN local[ticker] ELSE NewPositionState
             synced == [pos EXCEPT !.net_contracts = ReconciledCount(@, api_pos.position)]
         IN  SyncedPositions([t \in DOMAIN local \cup {ticker} |->
                                 IF t = ticker THEN synced ELSE local[t]],
                             Tail(market_positions))

\* PositionTracker.sync_with_exchange() when get_positions answers with
\* market_positions.
sync_with_exchange(market_positions) ==
    /\ positions' = SyncedPositions(positions, market_positions)
    /\ UNCHANGED <<trade_history, daily_reset_date, daily_pnl, weekly_pnl,
                   total_fees_paid>>

----------------------------------------------------------------------------
(* data/orderbook.py: levels are <<price in cents, quantity>> *)

\* sorted(levels, key=lambda x: x[0], reverse=True): a stable sort by price,
\* highest first.
RECURSIVE InsertDesc(_, _)
InsertDesc(sorted, level) ==
    IF sorted = <<>> THEN <<level>>
    ELSE IF Head(sorted)[1] >= level[1]
         THEN <<Head(sorted)>> \o InsertDesc(Tail(sorted), level)
         ELSE <<level>> \o sorted

RECURSIVE SortDesc(_)
SortDesc(levels) ==
    IF levels = <<>> THEN <<>>
    ELSE InsertDesc(SortDesc(SubSeq(levels, 1, Len(levels) - 1)), levels[Len(levels)])

\* OrderBookManager.update_from_rest(ticker, orderbook)
update_from_rest(ticker, orderbook) ==
    books' = [t \in DOMAIN books \cup {ticker} |->
                IF t = ticker
                THEN [yes_bids |-> SortDesc(orderbook.yes_bids),
                      no_bids |-> SortDesc(orderbook.no_bids)]
                ELSE books[t]]

\* The queries return <<price, quantity>>, or <<>> for None.
get_best_yes_bid(ticker) ==
    IF ticker \notin DOMAIN books \/ books[ticker].yes_bids = <<>> THEN <<>>
    ELSE books[ticker].yes_bids[1]

\* YES ask = round(1.00 - best NO bid, 2)
get_best_yes_ask(ticker) ==
    IF ticker \notin DOMAIN books \/ books[ticker].no_bids = <<>> THEN <<>>
    ELSE <<100 - books[ticker].no_bids[1][1], books[ticker].no_bids[1][2]>>

\* NO ask = round(1.00 - best YES bid, 2)
get_best_no_ask(ticker) ==
    IF ticker \notin DOMAIN books \/ books[ticker].yes_bids = <<>> THEN <<>>
    ELSE <<100 - books[ticker].yes_bids[1][1], books[ticker].yes_bids[1][2]>>

RECURSIVE VolumeAt(_, _)
VolumeAt(bids, price) ==
    IF bids = <<>> THEN 0
    ELSE (IF Head(bids)[1] = price THEN Head(bids)[2] ELSE 0) + VolumeAt(Tail(bids), price)

\* OrderBookManager.get_total_volume_at_price(ticker, side, price): levels
\* within 0.001 of the price, an ask side read from the opposite bids at
\* round(1.00 - price, 2).
get_total_volume_at_price(ticker, side, price) ==
    IF ticker \notin DOMAIN books THEN 0
    ELSE IF side = "yes_bid" THEN VolumeAt(books[ticker].yes_bids, price)
    ELSE IF side = "no_bid" THEN VolumeAt(books[ticker].no_bids, price)
    ELSE IF side = "yes_ask" THEN VolumeAt(books[ticker].no_bids, 100 - price)
    ELSE IF side = "no_ask" THEN VolumeAt(books[ticker].yes_bids, 100 - price)
    ELSE 0

\* The index of the first level of bids at the price (within 0.001 of it), 0
\* when there is none.
FirstLevelAt(bids, price) ==
    IF \E i \in DOMAIN bids : bids[i][1] = price
    THEN CHOOSE i \in DOMAIN bids :
            /\ bids[i][1] = price
            /\ \A j \in 1..(i - 1) : bids[j][1] # price
    ELSE 0

\* A level update that appends a new level and leaves the list as it is.
ApplyLevelAppending(bids, price, quantity) ==
    LET i == FirstLevelAt(bids, price)
    IN  IF i # 0 THEN
            IF quantity <= 0
            THEN SubSeq(bids, 1, i - 1) \o SubSeq(bids, i + 1, Len(bids))
            ELSE [bids EXCEPT ![i] = <<bids[i][1], quantity>>]
        ELSE IF quantity > 0 THEN Append(bids, <<price, quantity>>)
        ELSE bids

\* A level update that adds the quantity to the level instead of setting it.
ApplyLevelAdding(bids, price, quantity) ==
    LET i == FirstLevelAt(bids, price)
    IN  IF i # 0 THEN [bids EXCEPT ![i] = <<price, bids[i][2] + quantity>>]
        ELSE SortDesc(Append(bids, <<price, quantity>>))

\* OrderBookManager._apply_level(bids, price, quantity): the bid list after
\* the update.
ApplyLevel(bids, price, quantity) ==
    LET i == FirstLevelAt(bids, price)
    IN  IF i # 0 THEN
            IF quantity <= 0
            THEN SubSeq(bids, 1, i - 1) \o SubSeq(bids, i + 1, Len(bids))
            ELSE [bids EXCEPT ![i] = <<bids[i][1], quantity>>]
        ELSE IF quantity > 0 THEN SortDesc(Append(bids, <<price, quantity>>))
        ELSE bids

RECURSIVE ApplyLevels(_, _)
ApplyLevels(bids, levels) ==
    IF levels = <<>> THEN bids
    ELSE ApplyLevels(ApplyLevel(bids, Head(levels)[1], Head(levels)[2]), Tail(levels))

\* The books after update_from_delta(ticker, delta): a book is created for
\* an unknown ticker, then the "yes" levels and the "no" levels are applied.
DeltaApplied(local, ticker, delta) ==
    LET book == IF ticker \in DOMAIN local THEN local[ticker]
                ELSE [yes_bids |-> <<>>, no_bids |-> <<>>]
    IN  [t \in DOMAIN local \cup {ticker} |->
            IF t = ticker
            THEN [yes_bids |-> ApplyLevels(book.yes_bids, delta.yes),
                  no_bids |-> ApplyLevels(book.no_bids, delta.no)]
            ELSE local[t]]

\* OrderBookManager.update_from_delta(ticker, delta)
update_from_delta(ticker, delta) == books' = DeltaApplied(books, ticker, delta)

\* A depth query that returns every level of the side.
DepthAll(local, ticker, side, levels) ==
    IF ticker \notin DOMAIN local THEN <<>>
    ELSE IF side \in {"yes_bid", "no_ask"} THEN local[ticker].yes_bids
    ELSE local[ticker].no_bids

\* OrderBookManager.get_depth(ticker, side, levels) read from the books
\* local: the first levels entries of the side's list, an ask side at
\* round(1.00 - price, 2) of the opposite bids, and a ValueError for an
\* unknown side of a book that exists.  levels is at least 1.
DepthOf(local, ticker, side, levels) ==
    IF ticker \notin DOMAIN local THEN <<>>
    ELSE IF side \notin {"yes_bid", "no_bid", "yes_ask", "no_ask"} THEN "ValueError"
    ELSE LET bids == IF side \in {"yes_bid", "no_ask"} THEN local[ticker].yes_bids
                     ELSE local[ticker].no_bids
             raw == SubSeq(bids, 1, Min(levels, Len(bids)))
         IN  IF side \in {"yes_bid", "no_bid"} THEN raw
             ELSE [i \in DOMAIN raw |-> <<100 - raw[i][1], raw[i][2]>>]

get_depth(ticker, side, levels) == DepthOf(books, ticker, side, levels)

\* OrderBookManager.get_spread(ticker): YES ask minus YES bid, <<>> for None.
get_spread(ticker) ==
    IF get_best_yes_bid(ticker) = <<>> \/ get_best_yes_ask(ticker) = <<>> THEN <<>>
    ELSE get_best_yes_ask(ticker)[1] - get_best_yes_bid(ticker)[1]

\* OrderBookManager.has_book(ticker)
has_book(ticker) == ticker \in DOMAIN books

\* A lookup that creates an empty book for a ticker it does not know.
BooksAfterLookupCreating(local, ticker) ==
    [t \in DOMAIN local \cup {ticker} |->
        IF t \in DOMAIN local THEN local[t] ELSE [yes_bids |-> <<>>, no_bids |-> <<>>]]

\* The books after a query's self._books.get(ticker), or its
\* "ticker in self._books": a dict lookup, which adds no entry.
BooksAfterLookup(local, ticker) == local

\* What the query op returns: <<>> for None and for an empty list.
QueryReturn(op, ticker, side, arg) ==
    CASE op = "get_best_yes_bid" -> get_best_yes_bid(ticker)
      [] op = "get_best_yes_ask" -> get_best_yes_ask(ticker)
      [] op = "get_best_no_ask" -> get_best_no_ask(ticker)
      [] op = "get_spread" -> get_spread(ticker)
      [] op = "get_depth" -> get_depth(ticker, side, arg)
      [] op = "get_total_volume_at_price" -> get_total_volume_at_price(ticker, side, arg)
      [] op = "has_book" -> has_book(ticker)

----------------------------------------------------------------------------
(* paper_trading/paper_engine.py *)

RESTING_ORDER_TTL_SEC == 60

\* RestingPaperOrder.remaining and .is_fully_filled
Remaining(order) == order.count - order.filled

\* A test that takes an order for filled only once it holds more than its count.
IsOverFilled(order) == order.filled > order.count

IsFullyFilled(order) == order.filled >= order.count

\* int(fill_price * 100) in _create_fill: the float product of 0.29, 0.57 and
\* 0.58 by 100 lies just below the whole number and int() truncates it.
IntCents(price) == IF price \in {29, 57, 58} THEN price - 1 ELSE price

\* PaperEngine._create_fill: the Fill record; trade_id is the new _fill_count.
CreateFill(trade_id, ticker, side, action, count, fill_price, is_taker) ==
    [trade_id |-> trade_id, ticker |-> ticker, side |-> side, action |-> action,
     count |-> count,
     yes_price |-> IF side = "yes" THEN IntCents(fill_price) ELSE 100 - IntCents(fill_price),
     no_price |-> IF side = "no" THEN IntCents(fill_price) ELSE 100 - IntCents(fill_price),
     is_taker |-> is_taker]

\* PaperEngine._get_taker_fill_price: the price in cents, 0 for None.
GetTakerFillPrice(ticker, side, action, order_price) ==
    IF side = "yes" /\ action = "buy" THEN
        LET best_ask == get_best_yes_ask(ticker)
        IN  IF best_ask # <<>> /\ best_ask[1] > 0 /\ order_price >= best_ask[1]
            THEN best_ask[1] ELSE 0
    ELSE IF side = "yes" /\ action = "sell" THEN
        LET best_bid == get_best_yes_bid(ticker)
        IN  IF best_bid # <<>> /\ order_price <= best_bid[1] THEN best_bid[1] ELSE 0
    ELSE IF side = "no" /\ action = "buy" THEN
        LET best_no_ask == get_best_no_ask(ticker)
        IN  IF best_no_ask # <<>> /\ best_no_ask[1] > 0 /\ order_price >= best_no_ask[1]
            THEN best_no_ask[1] ELSE 0
    ELSE IF side = "no" /\ action = "sell" THEN
        IF ticker \in DOMAIN books /\ books[ticker].no_bids # <<>>
           /\ order_price <= books[ticker].no_bids[1][1]
        THEN books[ticker].no_bids[1][1] ELSE 0
    ELSE 0

\* A queue position at the front of the level, whatever the book displays.
EstimateQueueFront(ticker, side, action, price) == 0

\* PaperEngine._estimate_queue_position
EstimateQueuePosition(ticker, side, action, price) ==
    IF action = "buy"
    THEN get_total_volume_at_price(ticker, IF side = "yes" THEN "yes_bid" ELSE "no_bid", price)
    ELSE get_total_volume_at_price(ticker, IF side = "yes" THEN "yes_ask" ELSE "no_ask", price)

\* PaperEngine.try_fill(order): what the call returns and does.  outcome is
\* "none" (no price, or a taker that does not cross), "fill" or "queued".
TryFillOutcome(order) ==
    LET price_cents == IF order.side = "yes" THEN order.yes_price ELSE order.no_price
    IN  IF price_cents <= 0 THEN "none"
        ELSE IF ~order.post_only
        THEN IF GetTakerFillPrice(order.ticker, order.side, order.action, price_cents) = 0
             THEN "none" ELSE "fill"
        ELSE "queued"

TryFillFill(order) ==
    LET price_cents == IF order.side = "yes" THEN order.yes_price ELSE order.no_price
    IN  CreateFill(fill_count + 1, order.ticker, order.side, order.action, order.count,
                   GetTakerFillPrice(order.ticker, order.side, order.action, price_cents),
                   TRUE)

try_fill(order) ==
    LET price_cents == IF order.side = "yes" THEN order.yes_price ELSE order.no_price
        outcome == TryFillOutcome(order)
    IN  IF outcome = "none" THEN UNCHANGED paperVars
        ELSE IF outcome = "fill" THEN
            /\ fill_count' = fill_count + 1
            /\ fills' = Append(fills, TryFillFill(order))
            /\ UNCHANGED <<resting, total_maker_orders_placed, total_maker_orders_filled,
                           total_maker_orders_expired, total_maker_orders_cancelled,
                           next_order_id>>
        ELSE
            /\ resting' = Append(resting,
                   [order_id |-> next_order_id, ticker |-> order.ticker,
                    side |-> order.side, action |-> order.action, price |-> price_cents,
                    count |-> order.count, filled |-> 0,
                    queue_ahead |-> EstimateQueuePosition(order.ticker, order.side,
                                                          order.action, price_cents),
                    created_at |-> now])
            /\ next_order_id' = next_order_id + 1
            /\ total_maker_orders_placed' = total_maker_orders_placed + 1
            /\ UNCHANGED <<fills, fill_count, total_maker_orders_filled,
                           total_maker_orders_expired, total_maker_orders_cancelled>>

\* A match on the side alone, whatever the two prices.
TradeMatchesAnyPrice(order, trade_side, trade_price) == order.side = trade_side

\* PaperEngine._trade_matches_order: abs(trade_price - order.price) < 0.005 is
\* equality of the two prices in whole cents.
TradeMatchesOrder(order, trade_side, trade_price) ==
    IF order.action = "buy"
    THEN \/ order.side = trade_side /\ trade_price = order.price
         \/ order.side = trade_side /\ trade_price <= order.price
    ELSE IF order.action = "sell"
    THEN \/ order.side = trade_side /\ trade_price = order.price
         \/ order.side = trade_side /\ trade_price >= order.price
    ELSE FALSE

\* A fill quantity that ignores what the order still needs.
CanFillUncapped(remaining_volume, order) == remaining_volume

\* A fill of one contract for each order the trade reaches.
CanFillOne(remaining_volume, order) == 1

\* A fill of all the order still needs, whatever volume is left.
CanFillRemaining(remaining_volume, order) == Remaining(order)

\* can_fill = min(remaining_volume, order.remaining)
CanFill(remaining_volume, order) == Min(remaining_volume, Remaining(order))

\* One iteration of the loop of process_trade over the order at snapshot[i]:
\* st = [kept, new_fills, volume, n_filled] is the state the loop carries.
ProcessOrder(order, st, ticker, side, trade_price) ==
    IF st.volume <= 0 \/ order.ticker # ticker \/ IsFullyFilled(order)
       \/ ~TradeMatchesOrder(order, side, trade_price)
    THEN [st EXCEPT !.kept = Append(@, order)]
    ELSE
        LET consumed == IF order.queue_ahead > 0
                        THEN Min(st.volume, order.queue_ahead) ELSE 0
            drained == [order EXCEPT !.queue_ahead = @ - consumed]
            volume == st.volume - consumed
        IN  IF drained.queue_ahead <= 0 /\ volume > 0 THEN
                LET can_fill == CanFill(volume, drained)
                    filled == [drained EXCEPT !.filled = @ + can_fill]
                    fill == CreateFill(fill_count + Len(st.new_fills) + 1, order.ticker,
                                       order.side, order.action, can_fill, order.price,
                                       FALSE)
                IN  [kept |-> IF IsFullyFilled(filled) THEN st.kept
                              ELSE Append(st.kept, filled),
                     new_fills |-> Append(st.new_fills, fill),
                     volume |-> volume - can_fill,
                     n_filled |-> st.n_filled + (IF IsFullyFilled(filled) THEN 1 ELSE 0)]
            ELSE [st EXCEPT !.kept = Append(@, drained), !.volume = volume]

RECURSIVE ProcessLoop(_, _, _, _, _, _)
ProcessLoop(snapshot, i, st, ticker, side, trade_price) ==
    IF i > Len(snapshot) THEN st
    ELSE ProcessLoop(snapshot, i + 1,
                     ProcessOrder(snapshot[i], st, ticker, side, trade_price),
                     ticker, side, trade_price)

\* PaperEngine.process_trade(ticker, side, price_cents, count).  The fill
\* callback is None as constructed.
process_trade(ticker, side, price_cents, count) ==
    LET st == ProcessLoop(resting, 1,
                          [kept |-> <<>>, new_fills |-> <<>>, volume |-> count,
                           n_filled |-> 0],
                          ticker, side, price_cents)
    IN  /\ resting' = st.kept
        /\ fills' = fills \o st.new_fills
        /\ fill_count' = fill_count + Len(st.new_fills)
        /\ total_maker_orders_filled' = total_maker_orders_filled + st.n_filled
        /\ UNCHANGED <<total_maker_orders_placed, total_maker_orders_expired,
                       total_maker_orders_cancelled, next_order_id>>

\* A cancel that selects every resting order, whatever market is named.
CancelEverything(order, ticker) == TRUE

\* PaperEngine.cancel_resting_orders(ticker); ticker "" stands for None.
CancelSelected(order, ticker) == ticker = "" \/ order.ticker = ticker

cancel_resting_orders(ticker) ==
    LET keep(o) == ~CancelSelected(o, ticker)
    IN  /\ resting' = SelectSeq(resting, keep)
        /\ total_maker_orders_cancelled' =
               total_maker_orders_cancelled + Len(resting) - Len(SelectSeq(resting, keep))
        /\ UNCHANGED <<fills, fill_count, total_maker_orders_placed,
                       total_maker_orders_filled, total_maker_orders_expired,
                       next_order_id>>

\* PaperEngine.expire_stale_orders(ttl_sec)
expire_stale_orders(ttl_sec) ==
    LET keep(o) == ~((now - o.created_at) > ttl_sec)
    IN  /\ resting' = SelectSeq(resting, keep)
        /\ total_maker_orders_expired' =
               total_maker_orders_expired + Len(resting) - Len(SelectSeq(resting, keep))
        /\ UNCHANGED <<fills, fill_count, total_maker_orders_placed,
                       total_maker_orders_filled, total_maker_orders_cancelled,
                       next_order_id>>

\* A reset that empties the queue and the fills but keeps the counters.
reset_queue_only ==
    /\ resting' = <<>>
    /\ fills' = <<>>
    /\ fill_count' = 0
    /\ UNCHANGED <<total_maker_orders_placed, total_maker_orders_filled,
                   total_maker_orders_expired, total_maker_orders_cancelled,
                   next_order_id>>

\* PaperEngine.reset; order ids are random and stay fresh.
reset ==
    /\ fills' = <<>>
    /\ fill_count' = 0
    /\ resting' = <<>>
    /\ total_maker_orders_placed' = 0
    /\ total_maker_orders_filled' = 0
    /\ total_maker_orders_expired' = 0
    /\ total_maker_orders_cancelled' = 0
    /\ UNCHANGED next_order_id

----------------------------------------------------------------------------
(* execution/order_manager.py *)

\* OrderManager.get_open_orders(ticker); ticker "" stands for None.
get_open_orders(ticker) ==
    SelectSeq(orders, LAMBDA o : /\ o.status \in {"resting", "pending"}
                                 /\ (ticker = "" \/ o.ticker = ticker))

\* The Order _paper_place builds from the request; filled says whether
\* try_fill returned a Fill.
PaperOrderOf(request, order_id, filled) ==
    [order_id |-> order_id, ticker |-> request.ticker, side |-> request.side,
     action |-> request.action,
     status |-> IF filled THEN "executed" ELSE "resting",
     yes_price |-> request.yes_price, no_price |-> request.no_price,
     remaining_count |-> IF filled THEN 0 ELSE request.count,
     count |-> request.count]

\* OrderManager._paper_place(request) with the paper engine main.py attaches.
paper_place(request) ==
    /\ try_fill(request)
    /\ orders' = Append(orders, PaperOrderOf(request, Len(orders) + 1,
                                             TryFillOutcome(request) = "fill"))

\* OrderManager.cancel_order(order_id) in paper mode: the status of a tracked
\* order is set, whatever it was; the paper engine is not told.
paper_cancel_order(order_id) ==
    /\ orders' = [i \in DOMAIN orders |->
                      IF orders[i].order_id = order_id
                      THEN [orders[i] EXCEPT !.status = "canceled"] ELSE orders[i]]
    /\ UNCHANGED paperVars

\* OrderManager.cancel_all_orders(ticker) in paper mode; ticker "" stands for
\* None.  The paper engine is not told.
paper_cancel_all_orders(ticker) ==
    /\ orders' = [i \in DOMAIN orders |->
                      IF orders[i].status = "resting"
                         /\ (ticker = "" \/ orders[i].ticker = ticker)
                      THEN [orders[i] EXCEPT !.status = "canceled"] ELSE orders[i]]
    /\ UNCHANGED paperVars

\* OrderManager._live_place(request) when the exchange accepts the order: the
\* Order it answers with is resting and is tracked as answered.
live_place(request) ==
    orders' = Append(orders, PaperOrderOf(request, Len(orders) + 1, FALSE))

\* The KalshiClient request a live call awaits: op is the client method,
\* with the requests, order ids and price it was given.
ClientRequest(op, requests, order_ids, price) ==
    [op |-> op, requests |-> requests, order_ids |-> order_ids, price |-> price]

NoRequest == ClientRequest("none", <<>>, <<>>, 0)

\* What a call gives its caller: client says how the awaited request ended
\* ("ok", "failed", or "none" when the call made no request), raised whether
\* an exception left the call, and the value is ok for a bool, orders for an
\* Order (None is <<>>) or a list of Orders, count for an int.
Return(op, client, raised, ok, ords, count) ==
    [op |-> op, client |-> client, raised |-> raised, ok |-> ok, orders |-> ords,
     count |-> count]

NoReturn == Return("none", "none", FALSE, FALSE, <<>>, 0)

\* An except clause that lets the client's exception leave the call.
FailureRaises(op) == Return(op, "failed", TRUE, FALSE, <<>>, 0)

\* The except Exception clauses of _live_place, batch_place, cancel_order,
\* cancel_all_orders and amend_order: log, then return None, [], False, 0.
FailureReturn(op) == Return(op, "failed", FALSE, FALSE, <<>>, 0)

\* self._orders[oid].status = "canceled" for each oid of order_ids that is
\* in _orders.
MarkCanceled(order_ids) ==
    [i \in DOMAIN orders |->
        IF \E k \in DOMAIN order_ids : order_ids[k] = orders[i].order_id
        THEN [orders[i] EXCEPT !.status = "canceled"] ELSE orders[i]]

\* A cancel that marks the orders whether or not the client call succeeded.
CancelOutcomeOptimistic(order_ids, succeeded) == MarkCanceled(order_ids)

\* The try blocks of cancel_order and cancel_all_orders: the status lines
\* follow the awaited client call and run only when it did not raise.
CancelOutcome(order_ids, succeeded) ==
    IF succeeded THEN MarkCanceled(order_ids) ELSE orders

\* _track_order(order): add the order, or replace the record of its id.
TrackOrder(tracked, order) ==
    IF \E i \in DOMAIN tracked : tracked[i].order_id = order.order_id
    THEN [i \in DOMAIN tracked |->
            IF tracked[i].order_id = order.order_id THEN order ELSE tracked[i]]
    ELSE Append(tracked, order)

RECURSIVE TrackAll(_, _)
TrackAll(tracked, new) ==
    IF new = <<>> THEN tracked ELSE TrackAll(TrackOrder(tracked, Head(new)), Tail(new))

\* The Orders the exchange answers a list of requests with: resting, with
\* fresh order ids.
RECURSIVE AcceptedOrders(_, _)
AcceptedOrders(requests, first_id) ==
    IF requests = <<>> THEN <<>>
    ELSE <<PaperOrderOf(Head(requests), first_id, FALSE)>>
            \o AcceptedOrders(Tail(requests), first_id + 1)

\* The calls up to their await of the client.  place_order and batch_place
\* build the CreateOrderRequests; cancel_all_orders collects the ids of
\* get_open_orders(ticker) and returns 0 without a request when there are none.
place_order_call(request) ==
    /\ inflight' = ClientRequest("create_order", <<request>>, <<>>, 0)
    /\ UNCHANGED <<orders, returned>>

batch_place_call(requests) ==
    /\ inflight' = ClientRequest("batch_create_orders", requests, <<>>, 0)
    /\ UNCHANGED <<orders, returned>>

cancel_order_call(order_id) ==
    /\ inflight' = ClientRequest("cancel_order", <<>>, <<order_id>>, 0)
    /\ UNCHANGED <<orders, returned>>

cancel_all_orders_call(ticker) ==
    LET open == get_open_orders(ticker)
        order_ids == [i \in DOMAIN open |-> open[i].order_id]
    IN  IF open = <<>>
        THEN /\ returned' = Return("cancel_all_orders", "none", FALSE, FALSE, <<>>, 0)
             /\ UNCHANGED <<orders, inflight>>
        ELSE /\ inflight' = ClientRequest("batch_cancel_orders", <<>>, order_ids, 0)
             /\ UNCHANGED <<orders, returned>>

amend_order_call(order_id, new_price_cents) ==
    /\ inflight' = ClientRequest("amend_order", <<>>, <<order_id>>, new_price_cents)
    /\ UNCHANGED <<orders, returned>>

\* The calls from the point the awaited request ended.  result is what the
\* client returned: the Orders of the response.
live_call_succeeds(result) ==
    /\ inflight' = NoRequest
    /\ IF inflight.op = "create_order" THEN
           /\ orders' = TrackAll(orders, result)
           /\ returned' = Return("place_order", "ok", FALSE, TRUE, result, 0)
       ELSE IF inflight.op = "batch_create_orders" THEN
           /\ orders' = TrackAll(orders, result)
           /\ returned' = Return("batch_place", "ok", FALSE, TRUE, result, 0)
       ELSE IF inflight.op = "cancel_order" THEN
           /\ orders' = CancelOutcome(inflight.order_ids, TRUE)
           /\ returned' = Return("cancel_order", "ok", FALSE, TRUE, <<>>, 0)
       ELSE IF inflight.op = "batch_cancel_orders" THEN
           /\ orders' = CancelOutcome(inflight.order_ids, TRUE)
           /\ returned' = Return("cancel_all_orders", "ok", FALSE, TRUE, <<>>,
                                 Len(inflight.order_ids))
       ELSE
           /\ orders' = TrackAll(orders, result)
           /\ returned' = Return("amend_order", "ok", FALSE, TRUE, result, 0)

\* The awaited request raised: the call's except clause runs.
live_call_fails ==
    LET op == IF inflight.op = "create_order" THEN "place_order"
              ELSE IF inflight.op = "batch_create_orders" THEN "batch_place"
              ELSE IF inflight.op = "batch_cancel_orders" THEN "cancel_all_orders"
              ELSE inflight.op
    IN  /\ inflight' = NoRequest
        /\ orders' = IF inflight.op \in {"cancel_order", "batch_cancel_orders"}
                     THEN CancelOutcome(inflight.order_ids, FALSE) ELSE orders
        /\ returned' = FailureReturn(op)

----------------------------------------------------------------------------
(* risk/risk_manager.py and the PositionTracker queries it reads *)

MAX_SINGLE_TRADE_PCT == 10
MAX_PER_STRIKE_PCT == 15
MAX_PER_EVENT_PCT == 30
MAX_TOTAL_EXPOSURE_PCT == 75
CASH_BUFFER_PCT == 25
DAILY_LOSS_LIMIT_PCT == 5
WEEKLY_LOSS_LIMIT_PCT == 10

\* _initial_balance in cents: the balance main.py reads at start-up.
InitialBalance == 10000

T70 == "KXBTCD-26FEB14-T70000"
T71 == "KXBTCD-26FEB14-T71000"
E30 == "KXETHD-26FEB14-T3000"

\* The characters of a ticker (a str is opaque to TLC).
TickerChars(ticker) ==
    CASE ticker = T70 ->
           <<"K","X","B","T","C","D","-","2","6","F","E","B","1","4","-",
             "T","7","0","0","0","0">>
      [] ticker = T71 ->
           <<"K","X","B","T","C","D","-","2","6","F","E","B","1","4","-",
             "T","7","1","0","0","0">>
      [] ticker = E30 ->
           <<"K","X","E","T","H","D","-","2","6","F","E","B","1","4","-",
             "T","3","0","0","0">>

\* str.split("-"): the segments between dashes.
RECURSIVE SplitDash(_)
SplitDash(chars) ==
    IF \A i \in 1..Len(chars) : chars[i] # "-" THEN <<chars>>
    ELSE LET k == CHOOSE i \in 1..Len(chars) :
                      chars[i] = "-" /\ \A j \in 1..(i - 1) : chars[j] # "-"
         IN  <<SubSeq(chars, 1, k - 1)>> \o SplitDash(SubSeq(chars, k + 1, Len(chars)))

\* "-".join(parts)
RECURSIVE JoinDash(_)
JoinDash(parts) ==
    IF parts = <<>> THEN <<>>
    ELSE IF Len(parts) = 1 THEN parts[1]
    ELSE parts[1] \o <<"-">> \o JoinDash(Tail(parts))

\* RiskManager._extract_event_ticker, as characters
extract_event_ticker(market_ticker) ==
    LET parts == SplitDash(TickerChars(market_ticker))
    IN  IF Len(parts) >= 2 THEN JoinDash(SubSeq(parts, 1, 2))
        ELSE TickerChars(market_ticker)

\* needle in hay, for str
IsSubstring(needle, hay) ==
    \E i \in 0..(Len(hay) - Len(needle)) : SubSeq(hay, i + 1, i + Len(needle)) = needle

\* abs(pos.net_contracts) * pos.avg_entry_price, in cents
PositionExposure(pos) == RMul(R(Abs(pos.net_contracts)), pos.avg_entry_price)

RECURSIVE SumExposure(_)
SumExposure(tickers) ==
    IF tickers = {} THEN R(0)
    ELSE LET t == CHOOSE x \in tickers : TRUE
         IN  RAdd(PositionExposure(positions[t]), SumExposure(tickers \ {t}))

\* PositionTracker.get_net_exposure
get_net_exposure ==
    SumExposure({t \in DOMAIN positions : positions[t].net_contracts # 0})

\* PositionTracker.get_net_position
get_net_position(ticker) == PositionOf(ticker).net_contracts

\* PositionTracker.get_event_exposure(event_ticker)
get_event_exposure(event_ticker) ==
    SumExposure({t \in DOMAIN positions :
                    /\ IsSubstring(event_ticker, TickerChars(t))
                    /\ positions[t].net_contracts # 0})

\* A read of the daily figure that never resets it.
DailyPnlReadStale == daily_pnl

\* PositionTracker.daily_pnl: _check_daily_reset runs before the value is
\* returned, so a read on a date other than _daily_reset_date returns 0.
DailyPnlRead == IF today # daily_reset_date THEN R(0) ELSE daily_pnl

\* What one read of the daily_pnl property leaves in the tracker.
ReadDailyPnl ==
    /\ daily_pnl' = DailyPnlRead
    /\ daily_reset_date' = today
    /\ UNCHANGED <<positions, trade_history, weekly_pnl, total_fees_paid>>

\* x < -(pct / 100 * capital), x in rational cents
BelowLossLimit(x, pct) == RLt(RMul(R(100), x), R(-(pct * InitialBalance)))

\* x > pct / 100 * capital, x in rational cents
OverPct(x, pct) == RLt(R(pct * InitialBalance), RMul(R(100), x))

\* A RiskManager call and what it returned.  signals is the list handed to
\* filter_signals, approved the list it returned, rejections the proposals it
\* logged as rejected with the reason of each, evals the number of
\* _check_signal evaluations it made.
CallRecord(op, ret, signals, approved, rejections, evals) ==
    [op |-> op, ret |-> ret, signals |-> signals, approved |-> approved,
     rejections |-> rejections, evals |-> evals]

NoCall == CallRecord("none", FALSE, <<>>, <<>>, <<>>, 0)

PlainCall(op, ret) == CallRecord(op, ret, <<>>, <<>>, <<>>, 0)

\* A switch that forgets it has tripped.
ActiveBranchNever == FALSE

\* if self._kill_switch_active: return True
ActiveBranch == kill_switch_active

\* RiskManager.check_kill_switch: ret is what it returns, active the flag it
\* leaves, read whether it read the tracker's daily_pnl property.
CheckKillSwitchResult ==
    IF ActiveBranch THEN [ret |-> TRUE, active |-> kill_switch_active, read |-> FALSE]
    ELSE IF manual_override THEN [ret |-> TRUE, active |-> kill_switch_active, read |-> FALSE]
    ELSE IF ~exchange_open THEN [ret |-> TRUE, active |-> TRUE, read |-> FALSE]
    ELSE IF InitialBalance > 0 /\ BelowLossLimit(DailyPnlRead, DAILY_LOSS_LIMIT_PCT)
    THEN [ret |-> TRUE, active |-> TRUE, read |-> TRUE]
    ELSE [ret |-> FALSE, active |-> kill_switch_active, read |-> InitialBalance > 0]

\* _activate_kill_switch sets the flag; its cancel request needs
\* OrderManager.cancel_all_exchange_orders, which OrderManager does not have,
\* and the AttributeError is logged: no order changes.
check_kill_switch ==
    LET k == CheckKillSwitchResult
    IN  /\ kill_switch_active' = k.active
        /\ IF k.read THEN ReadDailyPnl ELSE UNCHANGED trackerVars
        /\ call' = PlainCall("check_kill_switch", k.ret)
        /\ UNCHANGED <<manual_override, exchange_open, order_manager_set>>

\* sum(o.remaining_count for o in open_orders)
RECURSIVE SumRemaining(_)
SumRemaining(open_orders) ==
    IF open_orders = <<>> THEN 0
    ELSE Head(open_orders).remaining_count + SumRemaining(Tail(open_orders))

\* A single-trade rule that measures against the per-strike percentage.
SingleTradeOverStrikePct(trade_cost) == OverPct(R(trade_cost), MAX_PER_STRIKE_PCT)

\* trade_cost > config.MAX_SINGLE_TRADE_PCT * capital
SingleTradeOver(trade_cost) == OverPct(R(trade_cost), MAX_SINGLE_TRADE_PCT)

\* RiskManager._check_signal: the rejection reason up to its first number,
\* "" for None.  It runs after check_kill_switch has read daily_pnl.
check_signal(signal) ==
    LET trade_cost == signal.price_cents * signal.contracts
        filled_contracts == Abs(get_net_position(signal.ticker))
        resting_contracts == IF order_manager_set
                             THEN SumRemaining(get_open_orders(signal.ticker))
                             ELSE 0
        total_contracts == filled_contracts + resting_contracts
        new_strike_exposure == total_contracts * signal.price_cents + trade_cost
        event_ticker == extract_event_ticker(signal.ticker)
        current_total == get_net_exposure
        remaining_cash == RSub(RSub(R(InitialBalance), current_total), R(trade_cost))
    IN  IF InitialBalance <= 0 THEN "No capital available"
        ELSE IF SingleTradeOver(trade_cost) THEN "Single trade"
        ELSE IF OverPct(R(new_strike_exposure), MAX_PER_STRIKE_PCT)
        THEN "Per-strike exposure"
        ELSE IF /\ event_ticker # <<>>
                /\ OverPct(RAdd(get_event_exposure(event_ticker), R(trade_cost)),
                           MAX_PER_EVENT_PCT)
        THEN "Per-event exposure"
        ELSE IF OverPct(RAdd(current_total, R(trade_cost)), MAX_TOTAL_EXPOSURE_PCT)
        THEN "Total exposure"
        ELSE IF RLt(RMul(R(100), remaining_cash), R(CASH_BUFFER_PCT * InitialBalance))
        THEN "Cash after trade"
        ELSE IF BelowLossLimit(DailyPnlRead, DAILY_LOSS_LIMIT_PCT) THEN "Daily loss"
        ELSE IF BelowLossLimit(weekly_pnl, WEEKLY_LOSS_LIMIT_PCT) THEN "Weekly loss"
        ELSE ""

\* The loop of filter_signals over signals[i..]: st = [approved, rejections].
RECURSIVE FilterLoop(_, _, _)
FilterLoop(signals, i, st) ==
    IF i > Len(signals) THEN st
    ELSE LET rejection == check_signal(signals[i])
         IN  FilterLoop(signals, i + 1,
                 IF rejection # ""
                 THEN [st EXCEPT !.rejections =
                           Append(@, [signal |-> signals[i], reason |-> rejection])]
                 ELSE [st EXCEPT !.approved = Append(@, signals[i])])

\* RiskManager.filter_signals(signals)
filter_signals(signals) ==
    LET k == CheckKillSwitchResult
        st == FilterLoop(signals, 1, [approved |-> <<>>, rejections |-> <<>>])
    IN  /\ kill_switch_active' = k.active
        /\ IF k.read THEN ReadDailyPnl ELSE UNCHANGED trackerVars
        /\ call' = IF k.ret
                   THEN CallRecord("filter_signals", TRUE, signals, <<>>, <<>>, 0)
                   ELSE CallRecord("filter_signals", FALSE, signals, st.approved,
                                   st.rejections, Len(signals))
        /\ UNCHANGED <<manual_override, exchange_open, order_manager_set>>

\* RiskManager.reset_kill_switch
reset_kill_switch ==
    /\ kill_switch_active' = FALSE
    /\ call' = PlainCall("reset_kill_switch", FALSE)
    /\ UNCHANGED <<manual_override, exchange_open, order_manager_set>>

\* A status update that re-arms the switch when the exchange reopens.
ExchangeStatusRearms(is_open) == IF is_open THEN FALSE ELSE kill_switch_active

\* _kill_switch_active after set_exchange_status: the call does not touch it.
ExchangeStatusEffect(is_open) == kill_switch_active

\* RiskManager.set_exchange_status(is_open)
set_exchange_status(is_open) ==
    /\ exchange_open' = is_open
    /\ kill_switch_active' = ExchangeStatusEffect(is_open)
    /\ call' = PlainCall("set_exchange_status", is_open)
    /\ UNCHANGED <<manual_override, order_manager_set>>

\* RiskManager.activate_manual_override
activate_manual_override ==
    /\ manual_override' = TRUE
    /\ call' = PlainCall("activate_manual_override", FALSE)
    /\ UNCHANGED <<kill_switch_active, exchange_open, order_manager_set>>

\* RiskManager.deactivate_manual_override
deactivate_manual_override ==
    /\ manual_override' = FALSE
    /\ call' = PlainCall("deactivate_manual_override", FALSE)
    /\ UNCHANGED <<kill_switch_active, exchange_open, order_manager_set>>

\* RiskManager.should_flatten_all: f.ret is what it returns, f.read whether
\* it read the tracker's daily_pnl property; the threshold is
\* 2.0 * DAILY_LOSS_LIMIT_PCT * capital.
should_flatten_all ==
    LET f == IF manual_override THEN [ret |-> TRUE, read |-> FALSE]
             ELSE IF InitialBalance > 0
             THEN [ret |-> BelowLossLimit(DailyPnlRead, 2 * DAILY_LOSS_LIMIT_PCT),
                   read |-> TRUE]
             ELSE [ret |-> FALSE, read |-> FALSE]
    IN  /\ IF f.read THEN ReadDailyPnl ELSE UNCHANGED trackerVars
        /\ call' = PlainCall("should_flatten_all", f.ret)
        /\ UNCHANGED riskVars

\* RiskManager.get_available_capital: max(0.0, balance - exposure - buffer),
\* in rational cents.
get_available_capital ==
    LET buffer == RDiv(R(CASH_BUFFER_PCT * InitialBalance), R(100))
        available == RSub(RSub(R(InitialBalance), get_net_exposure), buffer)
    IN  /\ call' = PlainCall("get_available_capital",
                             IF RLt(available, R(0)) THEN R(0) ELSE available)
        /\ UNCHANGED <<trackerVars, riskVars>>

\* RiskManager.set_order_manager(order_manager)
set_order_manager ==
    /\ order_manager_set' = TRUE
    /\ call' = PlainCall("set_order_manager", FALSE)
    /\ UNCHANGED <<kill_switch_active, manual_override, exchange_open>>

----------------------------------------------------------------------------
(* Construction *)

TrackerInit ==
    /\ positions = <<>>
    /\ trade_history = <<>>
    /\ daily_reset_date = 0
    /\ daily_pnl = R(0)
    /\ weekly_pnl = R(0)
    /\ total_fees_paid = 0

BooksInit == books = <<>>

PaperInit ==
    /\ resting = <<>>
    /\ fills = <<>>
    /\ fill_count = 0
    /\ total_maker_orders_placed = 0
    /\ total_maker_orders_filled = 0
    /\ total_maker_orders_expired = 0
    /\ total_maker_orders_cancelled = 0
    /\ next_order_id = 1

Strategies == {"market_maker", "momentum_scalp"}

GateInit ==
    /\ kill_switch_active = FALSE
    /\ manual_override = FALSE
    /\ exchange_open = TRUE
    /\ order_manager_set = FALSE
    /\ call = NoCall
    /\ orders = <<>>
    /\ approved_by = [s \in Strategies |-> <<>>]
    /\ exchange_orders = <<>>
    /\ inflight = NoRequest
    /\ returned = NoReturn

FeeIdle ==
    /\ fee_in = [contracts |-> 1, price |-> 1, is_maker |-> FALSE]
    /\ fee_out = -1

----------------------------------------------------------------------------
(* Specification of the fee schedule: Init draws the inputs of calculate_fee *)

InitFee ==
    /\ fee_in \in [contracts : 1..MaxFeeContracts, price : 1..99, is_maker : BOOLEAN]
    /\ fee_out = -1
    /\ TrackerInit
    /\ BooksInit
    /\ PaperInit
    /\ today = 1
    /\ now = 0
    /\ GateInit

NextFee == ApplyFee

SpecFee == InitFee /\ [][NextFee]_vars

----------------------------------------------------------------------------
(* Specification of the spread search: Init draws the inputs of              *)
(* min_profitable_spread, every mid price from 1 to 99 cents.                *)

InitSpread ==
    /\ fee_in \in [contracts : 1..MaxSpreadContracts, price : 1..99, is_maker : BOOLEAN]
    /\ fee_out = [spread |-> 0, steps |-> 0]
    /\ TrackerInit
    /\ BooksInit
    /\ PaperInit
    /\ today = 1
    /\ now = 0
    /\ GateInit

NextSpread == ApplySpread

SpecSpread == InitSpread /\ [][NextSpread]_vars

----------------------------------------------------------------------------
(* Specification of the position ledger alone: fill notifications arrive in  *)
(* transport-delivery order and each is handed to update_from_fill.          *)

LedgerTickers == {"KXBTCD-26FEB14-T70000"}

\* Fill notifications: both sides, both actions, maker and taker, and the
\* resolution of a 100-contract YES position at the settlement price $1.00.
LedgerFills ==
    { [ticker |-> t, side |-> s, action |-> a, count |-> c,
       yes_price |-> IF s = "yes" THEN p ELSE 100 - p,
       no_price |-> IF s = "no" THEN p ELSE 100 - p, is_taker |-> k] :
        t \in LedgerTickers, s \in {"yes", "no"}, a \in {"buy", "sell"},
        c \in {50, 100}, p \in {15, 85}, k \in BOOLEAN }
    \cup
    { [ticker |-> t, side |-> "yes", action |-> "sell", count |-> 100,
       yes_price |-> 100, no_price |-> 0, is_taker |-> TRUE] : t \in LedgerTickers }

\* main.py _handle_fill: Fill.model_validate, then update_from_fill(fill).
HandleFill(fill) ==
    /\ Len(trade_history) < MaxLedgerFills
    /\ update_from_fill(fill, "")
    /\ UNCHANGED <<feeVars, today, books, paperVars, now, gateVars>>

InitLedger ==
    /\ FeeIdle
    /\ TrackerInit
    /\ BooksInit
    /\ PaperInit
    /\ today = 1
    /\ now = 0
    /\ GateInit

NextLedger == \E fill \in LedgerFills : HandleFill(fill)

SpecLedger == InitLedger /\ [][NextLedger]_vars

----------------------------------------------------------------------------
(* Specification of the ledger with reconciliation: fill notifications and   *)
(* the answers of GET /portfolio/positions that main.py _sync_positions      *)
(* hands to sync_with_exchange.                                              *)

\* market_positions of GetPositionsResponse: no position, one market the
\* ledger knows, and two markets of which the ledger may know one.
SyncSnapshots ==
    { <<>>,
      <<[market_ticker |-> "KXBTCD-26FEB14-T70000", position |-> 50]>>,
      <<[market_ticker |-> "KXBTCD-26FEB14-T70000", position |-> -100],
        [market_ticker |-> "KXBTCD-26FEB14-T71000", position |-> 10]>> }

\* The fill notifications between reconciliations: YES taker fills of 50.
SyncFills ==
    { fill \in LedgerFills : fill.side = "yes" /\ fill.count = 50 /\ fill.is_taker }

SyncPositions(market_positions) ==
    /\ sync_with_exchange(market_positions)
    /\ UNCHANGED <<feeVars, today, books, paperVars, now, gateVars>>

\* The YES price main.py reads from a market's book when the book quotes.
MarkOf(ticker) == IF ticker = "KXBTCD-26FEB14-T70000" THEN 20 ELSE 25

\* The prices _update_position_prices can collect: one for each position
\* whose book has a bid or an ask, none for the others.
MarkPrices ==
    { [t \in quoted |-> MarkOf(t)] : quoted \in SUBSET (DOMAIN positions) }

\* main.py _update_position_prices: update_market_prices is called when at
\* least one position has a price.
UpdatePositionPrices(prices) ==
    /\ prices # <<>>
    /\ update_market_prices(prices)
    /\ UNCHANGED <<feeVars, today, books, paperVars, now, gateVars>>

NextSync ==
    \/ \E fill \in SyncFills : HandleFill(fill)
    \/ \E market_positions \in SyncSnapshots : SyncPositions(market_positions)
    \/ \E prices \in MarkPrices : UpdatePositionPrices(prices)

SpecSync == InitLedger /\ [][NextSync]_vars

----------------------------------------------------------------------------
(* Specification of the matching simulator: book snapshots, orders handed   *)
(* to try_fill, trade-stream events handed to process_trade, cancels,       *)
(* expiry and the passing of time.                                          *)

PaperTickers == {"KXBTCD-26FEB14-T70000"}

\* GET /markets/{ticker}/orderbook payloads, levels as the API lists them.
PaperSnapshots ==
    { [yes_bids |-> <<<<29, 1>>, <<57, 3>>>>, no_bids |-> <<<<40, 1>>>>],
      [yes_bids |-> <<<<29, 2>>>>, no_bids |-> <<<<50, 1>>>>] }

\* CreateOrderRequest as place_order builds it: the price on the order's side.
\* Taker orders at 50 cents, maker orders at 57 cents.
PaperRequests ==
    { [ticker |-> t, side |-> sd, action |-> a, count |-> c,
       yes_price |-> IF sd = "yes" THEN (IF po THEN 57 ELSE 50) ELSE 0,
       no_price |-> IF sd = "no" THEN (IF po THEN 57 ELSE 50) ELSE 0, post_only |-> po] :
        t \in PaperTickers, sd \in {"yes", "no"}, a \in {"buy", "sell"},
        c \in {2}, po \in BOOLEAN }

\* Markets a cancel names: the market of the orders, another market, and ""
\* for no market given.
PaperCancelTickers == PaperTickers \cup {"KXBTCD-26FEB14-T71000", ""}

\* Prices of the trades the trade stream reports.
PaperTradePrices == {29, 57}

PollOrderbook(ticker, orderbook) ==
    /\ update_from_rest(ticker, orderbook)
    /\ UNCHANGED <<feeVars, trackerVars, today, paperVars, now, gateVars>>

TryFill(order) ==
    /\ order.post_only => total_maker_orders_placed < MaxPaperOrders
    /\ ~order.post_only => fill_count < MaxPaperFills
    /\ try_fill(order)
    /\ UNCHANGED <<feeVars, trackerVars, today, books, now, gateVars>>

ProcessTrade(ticker, side, price_cents, count) ==
    /\ process_trade(ticker, side, price_cents, count)
    /\ UNCHANGED <<feeVars, trackerVars, today, books, now, gateVars>>

CancelRestingOrders(ticker) ==
    /\ cancel_resting_orders(ticker)
    /\ UNCHANGED <<feeVars, trackerVars, today, books, now, gateVars>>

ExpireStaleOrders ==
    /\ expire_stale_orders(RESTING_ORDER_TTL_SEC)
    /\ UNCHANGED <<feeVars, trackerVars, today, books, now, gateVars>>

\* time.time() moves on past the time-to-live of a resting order.
Tick ==
    /\ now + RESTING_ORDER_TTL_SEC + 1 <= MaxNow
    /\ now' = now + RESTING_ORDER_TTL_SEC + 1
    /\ UNCHANGED <<feeVars, trackerVars, today, books, paperVars, gateVars>>

InitPaper ==
    /\ FeeIdle
    /\ TrackerInit
    /\ BooksInit
    /\ PaperInit
    /\ today = 1
    /\ now = 0
    /\ GateInit

NextPaper ==
    \/ \E t \in PaperTickers, ob \in PaperSnapshots : PollOrderbook(t, ob)
    \/ \E order \in PaperRequests : TryFill(order)
    \/ \E t \in PaperTickers, sd \in {"yes", "no"}, p \in PaperTradePrices, c \in {1, 3} :
          ProcessTrade(t, sd, p, c)
    \/ \E t \in PaperCancelTickers : CancelRestingOrders(t)
    \/ ExpireStaleOrders
    \/ Tick

SpecPaper == InitPaper /\ [][NextPaper]_vars

----------------------------------------------------------------------------
(* Specification of the maker queue: several maker orders of one market     *)
(* rest at once, at the same and at different prices, and the trade stream, *)
(* cancels, expiry and reset act on them.                                   *)

\* One snapshot: 1 contract displayed at the YES bid of 57 cents and 1 at the
\* YES ask of 59 cents (a NO bid of 41).
QueueSnapshots == { [yes_bids |-> <<<<57, 1>>>>, no_bids |-> <<<<41, 1>>>>] }

\* Maker orders on the YES side at 57 and 59 cents, 2 contracts each.
QueueRequests ==
    { [ticker |-> T70, side |-> "yes", action |-> a, count |-> 2,
       yes_price |-> p, no_price |-> 0, post_only |-> TRUE] :
        a \in {"buy", "sell"}, p \in {57, 59} }

\* Trades of the stream: on the orders' market on either side, at the orders'
\* prices and between them, and one on another market.
QueueTradePrices == {57, 58, 59}

QueueTradeCounts == {1, 3}

QueueTrades ==
    { [ticker |-> T70, side |-> sd, price_cents |-> p, count |-> c] :
        sd \in {"yes", "no"}, p \in QueueTradePrices, c \in QueueTradeCounts }
    \cup { [ticker |-> T71, side |-> "yes", price_cents |-> 57, count |-> 3] }

QueueTryFill(order) ==
    /\ next_order_id <= MaxQueueOrders
    /\ try_fill(order)
    /\ UNCHANGED <<feeVars, trackerVars, today, books, now, gateVars>>

QueueReset ==
    /\ reset
    /\ UNCHANGED <<feeVars, trackerVars, today, books, now, gateVars>>

NextQueue ==
    \/ \E ob \in QueueSnapshots : PollOrderbook(T70, ob)
    \/ \E order \in QueueRequests : QueueTryFill(order)
    \/ \E tr \in QueueTrades :
          ProcessTrade(tr.ticker, tr.side, tr.price_cents, tr.count)
    \/ \E t \in {T70, ""} : CancelRestingOrders(t)
    \/ ExpireStaleOrders
    \/ Tick
    \/ QueueReset

SpecQueue == InitPaper /\ [][NextQueue]_vars

----------------------------------------------------------------------------
(* Specification of the local order book: REST snapshots replace a market's  *)
(* book and WebSocket deltas update single levels of it.                     *)

\* Level lists of a snapshot as the API may list them, one level a price.
BookLevelLists ==
    { <<>>,
      <<<<29, 1>>, <<57, 3>>>>,
      <<<<57, 2>>, <<29, 2>>, <<50, 1>>, <<43, 4>>>> }

BookSnapshots ==
    { [yes_bids |-> y, no_bids |-> n] : y \in BookLevelLists, n \in {<<>>, <<<<40, 1>>>>} }

\* Deltas of one level: a new quantity, 0 or a negative quantity, at a price
\* a snapshot lists or at one it does not.
BookDeltas ==
    { [yes |-> <<<<p, q>>>>, no |-> <<>>] : p \in {29, 57, 64}, q \in {-1, 0, 2, 5} }
    \cup { [yes |-> <<>>, no |-> <<<<p, q>>>>] : p \in {40, 60}, q \in {0, 2} }

BookSnapshot(ticker, orderbook) ==
    /\ update_from_rest(ticker, orderbook)
    /\ UNCHANGED <<feeVars, trackerVars, today, paperVars, now, gateVars>>

BookDelta(ticker, delta) ==
    /\ update_from_delta(ticker, delta)
    /\ UNCHANGED <<feeVars, trackerVars, today, paperVars, now, gateVars>>

NextBook ==
    \/ \E t \in PaperTickers, ob \in BookSnapshots : BookSnapshot(t, ob)
    \/ \E t \in PaperTickers, delta \in BookDeltas : BookDelta(t, delta)

SpecBook == InitPaper /\ [][NextBook]_vars

----------------------------------------------------------------------------
(* Specification of paper order placement: place_order hands whatever price  *)
(* and count a strategy computed to _paper_place, against the polled book.   *)

\* place_order(ticker, "yes", "buy", price_cents, contracts, post_only): a
\* price of 50 cents and a count of 2, and the prices 0 and 100 and the
\* count 0 next to them.
PlaceRequests ==
    { [ticker |-> t, side |-> "yes", action |-> "buy", count |-> c,
       yes_price |-> p, no_price |-> 0, post_only |-> po] :
        t \in PaperTickers, c \in {0, 2}, p \in {0, 50, 100}, po \in BOOLEAN }

\* OrderManager.place_order in paper mode
PlacePaperOrder(request) ==
    /\ Len(orders) < MaxPlaceOrders
    /\ paper_place(request)
    /\ UNCHANGED <<feeVars, trackerVars, today, books, now, riskVars, call,
                   approved_by, exchange_orders, liveVars>>

NextPlace ==
    \/ \E t \in PaperTickers, ob \in PaperSnapshots : PollOrderbook(t, ob)
    \/ \E request \in PlaceRequests : PlacePaperOrder(request)

SpecPlace == InitPaper /\ [][NextPlace]_vars

----------------------------------------------------------------------------
(* Specification of paper mode as main.py builds it: the OrderManager with  *)
(* its PaperEngine, whose fill callback is not set, beside the              *)
(* PositionTracker.  Orders are placed and cancelled through the            *)
(* OrderManager; trades of the stream and expiry reach the engine.          *)

\* YES buys of 2 contracts at 50 cents, taker and maker.
PaperModeRequests ==
    { [ticker |-> T70, side |-> "yes", action |-> "buy", count |-> 2,
       yes_price |-> 50, no_price |-> 0, post_only |-> po] : po \in BOOLEAN }

PaperModeFrame == UNCHANGED <<feeVars, today, books, now, riskVars, call,
                              approved_by, exchange_orders, liveVars>>

PaperModePlace(request) ==
    /\ Len(orders) < MaxPlaceOrders
    /\ paper_place(request)
    /\ UNCHANGED trackerVars
    /\ PaperModeFrame

PaperModeCancelOrder(order_id) ==
    /\ paper_cancel_order(order_id)
    /\ UNCHANGED trackerVars
    /\ PaperModeFrame

PaperModeCancelAll(ticker) ==
    /\ paper_cancel_all_orders(ticker)
    /\ UNCHANGED trackerVars
    /\ PaperModeFrame

PaperModeTrade(count) ==
    /\ process_trade(T70, "yes", 50, count)
    /\ UNCHANGED <<trackerVars, orders>>
    /\ PaperModeFrame

PaperModeExpire ==
    /\ expire_stale_orders(RESTING_ORDER_TTL_SEC)
    /\ UNCHANGED <<trackerVars, orders>>
    /\ PaperModeFrame

NextPaperMode ==
    \/ \E ob \in PaperSnapshots : PollOrderbook(T70, ob)
    \/ \E request \in PaperModeRequests : PaperModePlace(request)
    \/ \E order_id \in 1..MaxPlaceOrders : PaperModeCancelOrder(order_id)
    \/ \E t \in {T70, ""} : PaperModeCancelAll(t)
    \/ \E c \in {1, 3} : PaperModeTrade(c)
    \/ PaperModeExpire
    \/ Tick

SpecPaperMode == InitPaper /\ [][NextPaperMode]_vars

----------------------------------------------------------------------------
(* Specification of the order book queries: the strategies and the paper    *)
(* engine read a book that snapshots and deltas keep changing.               *)

\* The queries of OrderBookManager and the arguments they are called with:
\* the four sides and one that is none of them, a depth or a price.
BookQueryOps ==
    {"get_best_yes_bid", "get_best_yes_ask", "get_best_no_ask", "get_spread",
     "get_depth", "get_total_volume_at_price", "has_book"}

\* The market the snapshots and deltas are about and one that never has a book.
BookQueryTickers == PaperTickers \cup {"KXBTCD-26FEB14-T71000"}

BookQuerySides == {"yes_bid", "no_bid", "yes_ask", "no_ask", "bid"}

BookQueryArgs(op) ==
    IF op = "get_depth" THEN 1..MaxDepthLevels
    ELSE IF op = "get_total_volume_at_price" THEN {43, 57}
    ELSE {0}

\* One query of OrderBookManager: its effect on the books and its result.
book_query(op, ticker, side, arg) ==
    /\ books' = BooksAfterLookup(books, ticker)
    /\ call' = PlainCall(op, QueryReturn(op, ticker, side, arg))

BookQuery(op, ticker, side, arg) ==
    /\ book_query(op, ticker, side, arg)
    /\ UNCHANGED <<feeVars, trackerVars, today, paperVars, now, riskVars, orders,
                   approved_by, exchange_orders, liveVars>>

QuerySnapshots ==
    { [yes_bids |-> <<>>, no_bids |-> <<>>],
      [yes_bids |-> <<<<29, 1>>, <<57, 3>>>>, no_bids |-> <<<<40, 1>>>>] }

QueryDeltas ==
    { [yes |-> <<<<57, 0>>>>, no |-> <<>>], [yes |-> <<>>, no |-> <<<<60, 2>>>>] }

NextQuery ==
    \/ \E t \in PaperTickers, ob \in QuerySnapshots : BookSnapshot(t, ob)
    \/ \E t \in PaperTickers, delta \in QueryDeltas : BookDelta(t, delta)
    \/ \E op \in BookQueryOps, t \in BookQueryTickers, side \in BookQuerySides :
          \E arg \in BookQueryArgs(op) : BookQuery(op, t, side, arg)

SpecQuery == InitPaper /\ [][NextQuery]_vars

----------------------------------------------------------------------------
(* Specification of the kill switch: the RiskManager calls main.py and the  *)
(* strategies make, fill notifications that move the daily P&L, and UTC     *)
(* midnight.                                                                *)

\* A TradeSignal as the strategies build it.
Signal(ticker, side, action, price_cents, contracts) ==
    [ticker |-> ticker, side |-> side, action |-> action,
     price_cents |-> price_cents, contracts |-> contracts, post_only |-> FALSE]

\* 40 YES contracts bought or sold at 15c or 85c: a round trip from 85c to 15c
\* loses $28, one from 15c to 85c earns $28.
KillFills ==
    { [ticker |-> T70, side |-> "yes", action |-> a, count |-> 40,
       yes_price |-> p, no_price |-> 100 - p, is_taker |-> TRUE] :
        a \in {"buy", "sell"}, p \in {15, 85} }

KillSignalLists ==
    { <<>>,
      <<Signal(T70, "yes", "buy", 49, 20)>>,
      <<Signal(T70, "yes", "buy", 49, 21), Signal(T71, "yes", "buy", 49, 20)>> }

KillFrame == UNCHANGED <<feeVars, today, books, paperVars, now, orders,
                         approved_by, exchange_orders, liveVars>>

\* main.py _check_risk, each cycle
KillCheck ==
    /\ check_kill_switch
    /\ KillFrame

KillFilter(signals) ==
    /\ filter_signals(signals)
    /\ KillFrame

KillReset ==
    /\ reset_kill_switch
    /\ UNCHANGED trackerVars
    /\ KillFrame

KillSetExchangeStatus(is_open) ==
    /\ set_exchange_status(is_open)
    /\ UNCHANGED trackerVars
    /\ KillFrame

KillActivateOverride ==
    /\ activate_manual_override
    /\ UNCHANGED trackerVars
    /\ KillFrame

KillDeactivateOverride ==
    /\ deactivate_manual_override
    /\ UNCHANGED trackerVars
    /\ KillFrame

\* main.py _handle_fill on a WebSocket fill notification
KillOnFill(fill) ==
    /\ Len(trade_history) < MaxKillFills
    /\ update_from_fill(fill, "")
    /\ call' = NoCall
    /\ UNCHANGED riskVars
    /\ KillFrame

\* datetime.now(timezone.utc) passes midnight.
Midnight ==
    /\ today < MaxDay
    /\ today' = today + 1
    /\ call' = NoCall
    /\ UNCHANGED <<feeVars, trackerVars, books, paperVars, now, riskVars, orders,
                   approved_by, exchange_orders, liveVars>>

InitKill ==
    /\ FeeIdle
    /\ TrackerInit
    /\ BooksInit
    /\ PaperInit
    /\ today = 1
    /\ now = 0
    /\ GateInit

NextKill ==
    \/ KillCheck
    \/ \E signals \in KillSignalLists : KillFilter(signals)
    \/ KillReset
    \/ \E is_open \in BOOLEAN : KillSetExchangeStatus(is_open)
    \/ KillActivateOverride
    \/ KillDeactivateOverride
    \/ \E fill \in KillFills : KillOnFill(fill)
    \/ Midnight

SpecKill == InitKill /\ [][NextKill]_vars

----------------------------------------------------------------------------
(* Specification of the risk gate: filter_signals over positions in three   *)
(* markets of two events, resting paper orders, and the switches that veto  *)
(* every proposal.                                                          *)

GateTickers == {T70, T71, E30}

\* 40 YES contracts bought at 85c ($34 of exposure) or sold at 15c.
GateFills ==
    { [ticker |-> t, side |-> "yes", action |-> "buy", count |-> 40,
       yes_price |-> 85, no_price |-> 15, is_taker |-> TRUE] : t \in GateTickers }
    \cup
    { [ticker |-> t, side |-> "yes", action |-> "sell", count |-> 40,
       yes_price |-> 15, no_price |-> 85, is_taker |-> TRUE] : t \in GateTickers }

\* With $100 of capital the single-trade limit is $10: 21 contracts at 49c
\* are over it, 20 contracts at 49c are under it.
GateSignalLists ==
    { <<Signal(T70, "yes", "buy", 49, 20)>>,
      <<Signal(T70, "yes", "buy", 49, 21)>>,
      <<Signal(T70, "yes", "buy", 49, 21), Signal(T70, "yes", "buy", 49, 20),
        Signal(E30, "no", "buy", 49, 20)>> }

\* place_order(ticker, side, action, price_cents, contracts, post_only=True)
GateRequests ==
    { [ticker |-> T70, side |-> "yes", action |-> "buy", count |-> 20,
       yes_price |-> 49, no_price |-> 0, post_only |-> TRUE] }

GateFrame == UNCHANGED <<feeVars, today, books, now, approved_by, exchange_orders,
                        liveVars>>

GateFilter(signals) ==
    /\ filter_signals(signals)
    /\ UNCHANGED <<paperVars, orders>>
    /\ GateFrame

GateOnFill(fill) ==
    /\ Len(trade_history) < MaxGateFills
    /\ update_from_fill(fill, "")
    /\ call' = NoCall
    /\ UNCHANGED <<riskVars, paperVars, orders>>
    /\ GateFrame

\* OrderManager.place_order in paper mode
GatePlaceOrder(request) ==
    /\ Len(orders) < MaxGateOrders
    /\ paper_place(request)
    /\ call' = NoCall
    /\ UNCHANGED <<riskVars, trackerVars>>
    /\ GateFrame

GateSetOrderManager ==
    /\ set_order_manager
    /\ UNCHANGED <<trackerVars, paperVars, orders>>
    /\ GateFrame

GateReset ==
    /\ reset_kill_switch
    /\ UNCHANGED <<trackerVars, paperVars, orders>>
    /\ GateFrame

GateSetExchangeStatus(is_open) ==
    /\ set_exchange_status(is_open)
    /\ UNCHANGED <<trackerVars, paperVars, orders>>
    /\ GateFrame

GateActivateOverride ==
    /\ activate_manual_override
    /\ UNCHANGED <<trackerVars, paperVars, orders>>
    /\ GateFrame

GateDeactivateOverride ==
    /\ deactivate_manual_override
    /\ UNCHANGED <<trackerVars, paperVars, orders>>
    /\ GateFrame

\* main.py _check_risk
GateShouldFlattenAll ==
    /\ should_flatten_all
    /\ UNCHANGED <<paperVars, orders>>
    /\ GateFrame

\* the strategies size their orders by the available capital
GateAvailableCapital ==
    /\ get_available_capital
    /\ UNCHANGED <<paperVars, orders>>
    /\ GateFrame

InitGate ==
    /\ FeeIdle
    /\ TrackerInit
    /\ BooksInit
    /\ PaperInit
    /\ today = 1
    /\ now = 0
    /\ GateInit

NextGate ==
    \/ \E signals \in GateSignalLists : GateFilter(signals)
    \/ \E fill \in GateFills : GateOnFill(fill)
    \/ \E request \in GateRequests : GatePlaceOrder(request)
    \/ GateSetOrderManager
    \/ GateReset
    \/ \E is_open \in BOOLEAN : GateSetExchangeStatus(is_open)
    \/ GateActivateOverride
    \/ GateDeactivateOverride
    \/ GateShouldFlattenAll
    \/ GateAvailableCapital

SpecGate == InitGate /\ [][NextGate]_vars

----------------------------------------------------------------------------
(* Specification of the trading pipeline in live mode: each strategy hands  *)
(* its proposals to filter_signals and places what was approved, the        *)
(* exchange fills placed orders, and every fill notification is applied to  *)
(* the PositionTracker.  Strategies interleave between their steps.         *)

PipelineProposals ==
    { <<Signal(T70, "yes", "buy", 49, 20)>>,
      <<Signal(E30, "no", "buy", 10, 100)>>,
      <<Signal(T71, "yes", "buy", 49, 20), Signal(E30, "yes", "buy", 49, 20)>> }

\* The CreateOrderRequest place_order_from_signal builds.
RequestOf(signal) ==
    [ticker |-> signal.ticker, side |-> signal.side, action |-> signal.action,
     count |-> signal.contracts,
     yes_price |-> IF signal.side = "yes" THEN signal.price_cents ELSE 0,
     no_price |-> IF signal.side = "no" THEN signal.price_cents ELSE 0,
     post_only |-> signal.post_only]

\* The fill notification the exchange sends when it fills a whole order at
\* its limit price.
FillOfOrder(order) ==
    LET price == IF order.side = "yes" THEN order.yes_price ELSE order.no_price
    IN  [ticker |-> order.ticker, side |-> order.side, action |-> order.action,
         count |-> order.remaining_count,
         yes_price |-> IF order.side = "yes" THEN price ELSE 100 - price,
         no_price |-> IF order.side = "no" THEN price ELSE 100 - price,
         is_taker |-> TRUE]

PipelineFrame == UNCHANGED <<feeVars, today, books, paperVars, now, liveVars>>

\* A strategy cycle, first half: scan and pass the proposals through
\* RiskManager.filter_signals.
StrategyFilter(strategy, proposals) ==
    /\ approved_by[strategy] = <<>>
    /\ filter_signals(proposals)
    /\ approved_by' = [approved_by EXCEPT ![strategy] = call'.approved]
    /\ UNCHANGED <<orders, exchange_orders>>
    /\ PipelineFrame

\* A strategy cycle, second half: place the next approved proposal through
\* OrderManager.place_order; the exchange accepts it.
StrategyPlace(strategy) ==
    /\ approved_by[strategy] # <<>>
    /\ Len(orders) < MaxPipelineOrders
    /\ live_place(RequestOf(Head(approved_by[strategy])))
    /\ exchange_orders' = Append(exchange_orders, orders'[Len(orders')])
    /\ approved_by' = [approved_by EXCEPT ![strategy] = Tail(@)]
    /\ call' = NoCall
    /\ UNCHANGED <<riskVars, trackerVars>>
    /\ PipelineFrame

\* The exchange fills the i-th order it holds and main.py _handle_fill
\* applies the notification.
ExchangeFill(i) ==
    /\ i \in 1..Len(exchange_orders)
    /\ update_from_fill(FillOfOrder(exchange_orders[i]), "")
    /\ exchange_orders' = SubSeq(exchange_orders, 1, i - 1)
                            \o SubSeq(exchange_orders, i + 1, Len(exchange_orders))
    /\ call' = NoCall
    /\ UNCHANGED <<riskVars, orders, approved_by>>
    /\ PipelineFrame

InitPipeline ==
    /\ FeeIdle
    /\ TrackerInit
    /\ BooksInit
    /\ PaperInit
    /\ today = 1
    /\ now = 0
    /\ GateInit

NextPipeline ==
    \/ \E strategy \in Strategies, proposals \in PipelineProposals :
          StrategyFilter(strategy, proposals)
    \/ \E strategy \in Strategies : StrategyPlace(strategy)
    \/ \E i \in 1..MaxPipelineOrders : ExchangeFill(i)

SpecPipeline == InitPipeline /\ [][NextPipeline]_vars

----------------------------------------------------------------------------
(* Specification of the OrderManager in live mode: each call sends one       *)
(* KalshiClient request and waits; the exchange answers it, or the request   *)
(* raises (the exchange rejects it, or the transport fails before or after   *)
(* the exchange acted); the exchange executes orders it holds.               *)

LiveTickers == {"KXBTCD-26FEB14-T70000", "KXBTCD-26FEB14-T71000"}

LiveRequestOf(ticker) ==
    [ticker |-> ticker, side |-> "yes", action |-> "buy", count |-> 2,
     yes_price |-> 50, no_price |-> 0, post_only |-> TRUE]

LiveRequests == {LiveRequestOf(t) : t \in LiveTickers}

\* The signal lists handed to batch_place.
LiveBatches ==
    {<<LiveRequestOf("KXBTCD-26FEB14-T70000"), LiveRequestOf("KXBTCD-26FEB14-T71000")>>}

\* The price amend_order moves an order to.
LiveAmendPrices == {55}

LiveFrame == UNCHANGED <<feeVars, trackerVars, today, books, paperVars, now, riskVars,
                         call, approved_by>>

\* Whether the exchange holds an order of this id, and its book without
\* the orders of the given ids.
ExchangeHolds(order_id) ==
    \E i \in DOMAIN exchange_orders : exchange_orders[i].order_id = order_id

ExchangeWithout(order_ids) ==
    SelectSeq(exchange_orders,
              LAMBDA o : ~\E k \in DOMAIN order_ids : order_ids[k] = o.order_id)

LivePlaceOrder(request) ==
    /\ inflight = NoRequest
    /\ Len(orders) < MaxLiveOrders
    /\ place_order_call(request)
    /\ UNCHANGED exchange_orders
    /\ LiveFrame

LiveBatchPlace(requests) ==
    /\ inflight = NoRequest
    /\ Len(orders) + Len(requests) <= MaxLiveOrders
    /\ batch_place_call(requests)
    /\ UNCHANGED exchange_orders
    /\ LiveFrame

LiveCancelOrder(order_id) ==
    /\ inflight = NoRequest
    /\ cancel_order_call(order_id)
    /\ UNCHANGED exchange_orders
    /\ LiveFrame

LiveCancelAllOrders(ticker) ==
    /\ inflight = NoRequest
    /\ cancel_all_orders_call(ticker)
    /\ UNCHANGED exchange_orders
    /\ LiveFrame

LiveAmendOrder(order_id, new_price_cents) ==
    /\ inflight = NoRequest
    /\ amend_order_call(order_id, new_price_cents)
    /\ UNCHANGED exchange_orders
    /\ LiveFrame

\* The exchange carries out the awaited request and its answer arrives: it
\* accepts new orders as resting, cancels orders it holds, or reprices an
\* order it holds.  It answers a cancel or an amend of an order it does not
\* hold with an error.
ExchangeAnswers ==
    /\ inflight # NoRequest
    /\ IF inflight.op \in {"create_order", "batch_create_orders"} THEN
           LET result == AcceptedOrders(inflight.requests, Len(orders) + 1)
           IN  /\ exchange_orders' = exchange_orders \o result
               /\ live_call_succeeds(result)
       ELSE IF inflight.op \in {"cancel_order", "batch_cancel_orders"} THEN
           /\ \A k \in DOMAIN inflight.order_ids : ExchangeHolds(inflight.order_ids[k])
           /\ exchange_orders' = ExchangeWithout(inflight.order_ids)
           /\ live_call_succeeds(<<>>)
       ELSE
           /\ ExchangeHolds(inflight.order_ids[1])
           /\ exchange_orders' =
                  [i \in DOMAIN exchange_orders |->
                     IF exchange_orders[i].order_id = inflight.order_ids[1]
                     THEN [exchange_orders[i] EXCEPT !.yes_price = inflight.price]
                     ELSE exchange_orders[i]]
           /\ live_call_succeeds(
                  SelectSeq(exchange_orders',
                            LAMBDA o : o.order_id = inflight.order_ids[1]))
    /\ LiveFrame

\* The awaited request raises.  acted says whether the exchange had carried
\* out a cancel before the answer was lost; a create or an amend that
\* raises leaves the exchange as it was.
ClientRaises(acted) ==
    /\ inflight # NoRequest
    /\ live_call_fails
    /\ exchange_orders' =
          IF acted /\ inflight.op \in {"cancel_order", "batch_cancel_orders"}
          THEN ExchangeWithout(inflight.order_ids) ELSE exchange_orders
    /\ LiveFrame

\* The exchange executes the i-th order it holds.  In live mode nothing
\* tells the OrderManager.
ExchangeExecutes(i) ==
    /\ i \in 1..Len(exchange_orders)
    /\ exchange_orders' = SubSeq(exchange_orders, 1, i - 1)
                            \o SubSeq(exchange_orders, i + 1, Len(exchange_orders))
    /\ UNCHANGED <<orders, liveVars>>
    /\ LiveFrame

InitLive ==
    /\ FeeIdle
    /\ TrackerInit
    /\ BooksInit
    /\ PaperInit
    /\ today = 1
    /\ now = 0
    /\ GateInit

NextLive ==
    \/ \E request \in LiveRequests : LivePlaceOrder(request)
    \/ \E requests \in LiveBatches : LiveBatchPlace(requests)
    \/ \E order_id \in 1..MaxLiveOrders : LiveCancelOrder(order_id)
    \/ \E ticker \in {"", "KXBTCD-26FEB14-T70000"} : LiveCancelAllOrders(ticker)
    \/ \E order_id \in 1..MaxLiveOrders, p \in LiveAmendPrices : LiveAmendOrder(order_id, p)
    \/ ExchangeAnswers
    \/ \E acted \in BOOLEAN : ClientRaises(acted)
    \/ \E i \in 1..MaxLiveOrders : ExchangeExecutes(i)

SpecLive == InitLive /\ [][NextLive]_vars

----------------------------------------------------------------------------
(* Claims *)

\* C9: for contracts > 0, a price of 1..99 cents and either maker flag, the fee
\* in cents is max(1, ceil(coefficient * contracts * price * (1 - price) * 100))
\* with coefficient 7/400 for a maker and 7/100 for a taker: it is the least
\* whole number of cents k >= 1 that is not below the raw fee, so it is at
\* least one cent and a raw value that is a whole number of cents is not pushed
\* up; the listed values are fee(100, 0.50, taker) = 1.75, fee(100, 0.95,
\* taker) = 0.34, fee(100, 0.95, maker) = 0.09, fee(1, 0.01, taker) = 0.01 and
\* fee(10, 0.50, taker) = 0.18.
C9_FeeIsCeilOfSchedule ==
    fee_out # -1 =>
        LET n == fee_in.contracts
            p == fee_in.price
            num == 7 * n * p * (100 - p)
            den == IF fee_in.is_maker THEN 40000 ELSE 10000
        IN  /\ fee_out >= 1
            /\ fee_out * den >= num
            /\ fee_out = 1 \/ (fee_out - 1) * den < num
            /\ (n = 100 /\ p = 50 /\ ~fee_in.is_maker) => fee_out = 175
            /\ (n = 100 /\ p = 95 /\ ~fee_in.is_maker) => fee_out = 34
            /\ (n = 100 /\ p = 95 /\ fee_in.is_maker) => fee_out = 9
            /\ (n = 1 /\ p = 1 /\ ~fee_in.is_maker) => fee_out = 1
            /\ (n = 10 /\ p = 50 /\ ~fee_in.is_maker) => fee_out = 18

\* C9 witness: calculate_fee has been applied to 100 contracts at 50 cents as a
\* taker, whose raw fee is exactly 175 cents.
C9_Witness ==
    /\ fee_in = [contracts |-> 100, price |-> 50, is_maker |-> FALSE]
    /\ fee_out = 175

\* C8: feeding the ledger a maker buy fill of 100 YES at $0.85 and then the
\* resolution of those 100 contracts at the settlement price $1.00 leaves that
\* market's realized P&L at 15.00 - 0.23 = 14.77, within 0.01.
C8_RoundTripRealizedPnl ==
    ( /\ Len(trade_history) = 2
      /\ trade_history[1].side = "yes" /\ trade_history[1].action = "buy"
      /\ trade_history[1].contracts = 100 /\ trade_history[1].price = 85
      /\ trade_history[1].is_maker
      /\ trade_history[2].side = "yes" /\ trade_history[2].action = "sell"
      /\ trade_history[2].contracts = 100 /\ trade_history[2].price = 100 )
    => LET realized == positions[trade_history[1].ticker].realized_pnl
       IN  RLe(R(1476), realized) /\ RLe(realized, R(1478))

\* The fill a TradeRecord was written for.
FillOfRecord(rec) ==
    [ticker |-> rec.ticker, side |-> rec.side, action |-> rec.action,
     count |-> rec.contracts,
     yes_price |-> IF rec.side = "yes" THEN rec.price ELSE 100 - rec.price,
     no_price |-> IF rec.side = "no" THEN rec.price ELSE 100 - rec.price,
     is_taker |-> ~rec.is_maker]

\* C10: every update_from_fill call, whichever branch it takes, subtracts the
\* fill's fee from the position's realized P&L and from the daily and the
\* weekly accumulator: each of the three moves by the branch's gross P&L minus
\* the fee.
C10_EveryFillSubtractsFee ==
    [][ Len(trade_history') = Len(trade_history) + 1 =>
          LET rec == trade_history'[Len(trade_history')]
              fill == FillOfRecord(rec)
              gross == FillBranch(PositionOf(rec.ticker), fill).pnl
              delta == RSub(gross, R(rec.fee))
          IN  /\ positions'[rec.ticker].realized_pnl
                    = RAdd(PositionOf(rec.ticker).realized_pnl, delta)
              /\ daily_pnl' = RAdd(daily_pnl, delta)
              /\ weekly_pnl' = RAdd(weekly_pnl, delta) ]_vars

\* C5: every resting paper order has 0 <= filled <= count, and no step of the
\* engine lowers an order's filled count, whatever volumes process_trade is
\* given.  Each maker fill of a step belongs, in order, to one order whose
\* filled count moved: the fill is for at least one contract, filled plus
\* the fill stays within count, and an order leaves the book through a fill
\* exactly when filled has reached count.
C5_RestingOf(order_id, book) ==
    SelectSeq(book, LAMBDA o : o.order_id = order_id)

C5_FilledInRange ==
    \A i \in 1..Len(resting) :
        resting[i].filled >= 0 /\ resting[i].filled <= resting[i].count

C5_FilledStep ==
    /\ \A i \in 1..Len(resting) :
          LET after == C5_RestingOf(resting[i].order_id, resting')
          IN  after # <<>> => after[1].filled >= resting[i].filled
    /\ (/\ total_maker_orders_placed' = total_maker_orders_placed
        /\ total_maker_orders_cancelled' = total_maker_orders_cancelled
        /\ total_maker_orders_expired' = total_maker_orders_expired)
       => LET moved(o) ==
                  LET after == C5_RestingOf(o.order_id, resting')
                  IN  after = <<>> \/ after[1].filled # o.filled
              touched == SelectSeq(resting, moved)
              new == SelectSeq(SubSeq(fills', Len(fills) + 1, Len(fills')),
                               LAMBDA f : ~f.is_taker)
          IN  /\ Len(new) = Len(touched)
              /\ \A k \in 1..Len(touched) :
                    LET after == C5_RestingOf(touched[k].order_id, resting')
                    IN  /\ new[k].count >= 1
                        /\ touched[k].filled + new[k].count <= touched[k].count
                        /\ IF after = <<>>
                           THEN touched[k].filled + new[k].count = touched[k].count
                           ELSE after[1].filled = touched[k].filled + new[k].count

C5_FilledMonotoneWithinCount ==
    [](C5_FilledInRange) /\ [][C5_FilledStep]_vars

\* A partial fill followed by the fill that completes the order.
C5_Witness ==
    /\ total_maker_orders_filled >= 1
    /\ \E i, j \in 1..Len(fills) :
          /\ i < j
          /\ ~fills[i].is_taker /\ ~fills[j].is_taker
          /\ fills[i].count = 1 /\ fills[j].count = 1
          /\ fills[i].side = fills[j].side /\ fills[i].action = fills[j].action

\* C2: a filter_signals call made while the kill switch is tripped returns an
\* empty approved list whatever list it is given, and makes no _check_signal
\* evaluation: nothing is approved, nothing is rejected with a reason.
C2_TrippedFilterRejectsUnevaluated ==
    [][ (kill_switch_active /\ call'.op = "filter_signals")
          => /\ call'.approved = <<>>
             /\ call'.evals = 0
             /\ call'.rejections = <<>> ]_vars

\* C2 witness: filter_signals has returned nothing for a non-empty list while
\* the switch was tripped although the exchange is open, the override is off
\* and the day's P&L is within the limit.
C2_Witness ==
    /\ call.op = "filter_signals"
    /\ call.signals # <<>> /\ call.approved = <<>> /\ call.evals = 0
    /\ kill_switch_active /\ exchange_open /\ ~manual_override
    /\ ~BelowLossLimit(DailyPnlRead, DAILY_LOSS_LIMIT_PCT)

\* C3: from a state where the kill switch is tripped, every step other than
\* reset_kill_switch leaves it tripped, every check_kill_switch returns true
\* and every filter_signals approves nothing, also after the exchange has
\* reopened and the daily P&L has recovered or been reset at midnight.
C3_TrippedIsSticky ==
    [][ (kill_switch_active /\ call'.op # "reset_kill_switch")
          => /\ kill_switch_active'
             /\ call'.op = "check_kill_switch" => call'.ret
             /\ call'.op = "filter_signals" => call'.approved = <<>> ]_vars

\* C3 witness: check_kill_switch has returned true with the switch tripped
\* after the loss that tripped it is gone and the exchange is open.
C3_Witness ==
    /\ call.op = "check_kill_switch" /\ call.ret
    /\ kill_switch_active /\ exchange_open /\ ~manual_override
    /\ BelowLossLimit(weekly_pnl, DAILY_LOSS_LIMIT_PCT)
    /\ ~BelowLossLimit(DailyPnlRead, DAILY_LOSS_LIMIT_PCT)

\* The P&L update_from_fill has added on the current UTC date: the history is
\* replayed from an empty ledger and the contributions of today's records are
\* summed.
RECURSIVE C4_Replay(_, _, _)
C4_Replay(i, ledger, acc) ==
    IF i > Len(trade_history) THEN acc
    ELSE LET rec == trade_history[i]
             pos == IF rec.ticker \in DOMAIN ledger THEN ledger[rec.ticker]
                    ELSE NewPositionState
             b == FillBranch(pos, FillOfRecord(rec))
             newpos == [pos EXCEPT !.net_contracts = b.net, !.avg_entry_price = b.avg]
             added == IF b.booked /\ rec.date = today
                      THEN RSub(b.pnl, R(rec.fee)) ELSE R(0)
         IN  C4_Replay(i + 1,
                       [t \in DOMAIN ledger \cup {rec.ticker} |->
                            IF t = rec.ticker THEN newpos ELSE ledger[t]],
                       RAdd(acc, added))

C4_DailyPnlToday == C4_Replay(1, <<>>, R(0))

\* C4: with capital C > 0, a check_kill_switch call on an armed switch (the
\* manual override off) returns true and trips the switch whenever the
\* exchange is reported closed or the day's P&L is below -(5% of C), and
\* returns false and leaves the switch armed when the exchange is open and
\* the day's P&L is at or above -(5% of C).
C4_KillSwitchTripsOnLossOrClosure ==
    [][ ( /\ call'.op = "check_kill_switch"
          /\ ~kill_switch_active /\ ~manual_override /\ InitialBalance > 0 )
          => IF ~exchange_open
                \/ BelowLossLimit(C4_DailyPnlToday, DAILY_LOSS_LIMIT_PCT)
             THEN call'.ret /\ kill_switch_active'
             ELSE ~call'.ret /\ ~kill_switch_active' ]_vars

\* The seven rules of the gate as stated for a proposal, against the ledgers
\* as they stand: the event of a market is its two leading ticker segments,
\* and the per-strike rule counts the contracts filled and the contracts
\* resting in the OrderManager.
RuleNotional(sg) == sg.price_cents * sg.contracts

RuleEventOf(ticker) == SubSeq(SplitDash(TickerChars(ticker)), 1, 2)

RuleEventExposure(sg) ==
    SumExposure({t \in DOMAIN positions :
                    /\ RuleEventOf(t) = RuleEventOf(sg.ticker)
                    /\ positions[t].net_contracts # 0})

RuleRestingContracts(sg) == SumRemaining(get_open_orders(sg.ticker))

\* x > pct% of capital, for a rational x in cents
RuleOver(x, pct) == x[1] * 100 > pct * InitialBalance * x[2]

RuleViolated(sg, k) ==
    CASE k = 1 -> RuleOver(R(RuleNotional(sg)), MAX_SINGLE_TRADE_PCT)
      [] k = 2 -> RuleOver(R((Abs(get_net_position(sg.ticker)) + RuleRestingContracts(sg))
                               * sg.price_cents + RuleNotional(sg)),
                           MAX_PER_STRIKE_PCT)
      [] k = 3 -> RuleOver(RAdd(RuleEventExposure(sg), R(RuleNotional(sg))),
                           MAX_PER_EVENT_PCT)
      [] k = 4 -> RuleOver(RAdd(get_net_exposure, R(RuleNotional(sg))),
                           MAX_TOTAL_EXPOSURE_PCT)
      [] k = 5 -> LET remaining_cash ==
                          RSub(R(InitialBalance),
                               RAdd(get_net_exposure, R(RuleNotional(sg))))
                  IN  remaining_cash[1] * 100
                        < CASH_BUFFER_PCT * InitialBalance * remaining_cash[2]
      [] k = 6 -> RLt(RMul(R(100), daily_pnl), R(-(DAILY_LOSS_LIMIT_PCT * InitialBalance)))
      [] k = 7 -> RLt(RMul(R(100), weekly_pnl), R(-(WEEKLY_LOSS_LIMIT_PCT * InitialBalance)))

RuleFirstViolated(sg) ==
    IF \E k \in 1..7 : RuleViolated(sg, k)
    THEN CHOOSE k \in 1..7 : RuleViolated(sg, k) /\ \A j \in 1..(k - 1) : ~RuleViolated(sg, j)
    ELSE 0

RuleReason(k) ==
    CASE k = 1 -> "Single trade"
      [] k = 2 -> "Per-strike exposure"
      [] k = 3 -> "Per-event exposure"
      [] k = 4 -> "Total exposure"
      [] k = 5 -> "Cash after trade"
      [] k = 6 -> "Daily loss"
      [] k = 7 -> "Weekly loss"

\* C6: a filter_signals call that finds the kill switch armed returns exactly
\* the proposals that violate none of the seven rules, in their input order,
\* and logs every other proposal, in input order, as rejected with the
\* non-empty reason of the first rule, in the order 1 to 7, that it violates.
C6_FilterAppliesSevenRules ==
    (call.op = "filter_signals" /\ ~call.ret) =>
        LET passes(sg) == RuleFirstViolated(sg) = 0
            fails(sg) == RuleFirstViolated(sg) # 0
            rejected == SelectSeq(call.signals, fails)
        IN  /\ call.approved = SelectSeq(call.signals, passes)
            /\ Len(call.rejections) = Len(rejected)
            /\ \A i \in 1..Len(rejected) :
                  /\ call.rejections[i].signal = rejected[i]
                  /\ call.rejections[i].reason = RuleReason(RuleFirstViolated(rejected[i]))
                  /\ call.rejections[i].reason # ""

\* C7: in a filter_signals call that gets past the kill-switch check, a
\* proposal whose notional is over 10% of capital is rejected for the
\* single-trade rule, and a proposal whose notional is under 10% of capital
\* and that violates none of the rules 2 to 7 is approved.
C7_SingleTradeLimit ==
    (call.op = "filter_signals" /\ ~call.ret) =>
        \A i \in 1..Len(call.signals) :
            LET sg == call.signals[i]
                approved == \E j \in 1..Len(call.approved) : call.approved[j] = sg
            IN  /\ RuleNotional(sg) * 100 > MAX_SINGLE_TRADE_PCT * InitialBalance
                      => /\ ~approved
                         /\ \E j \in 1..Len(call.rejections) :
                               call.rejections[j] = [signal |-> sg, reason |-> "Single trade"]
                /\ ( /\ RuleNotional(sg) * 100 < MAX_SINGLE_TRADE_PCT * InitialBalance
                     /\ \A k \in 2..7 : ~RuleViolated(sg, k) )
                      => approved

\* C7 witness: one call was given two proposals that differ in the count
\* only, 21 contracts at 49c and 20 contracts at 49c; it rejected the first
\* for the single-trade rule and approved the second.
C7_Witness ==
    /\ call.op = "filter_signals" /\ ~call.ret
    /\ \E i, j \in 1..Len(call.signals) :
          LET over == call.signals[i]
              under == call.signals[j]
          IN  /\ over = [under EXCEPT !.contracts = under.contracts + 1]
              /\ RuleNotional(over) * 100 > MAX_SINGLE_TRADE_PCT * InitialBalance
              /\ RuleNotional(under) * 100 < MAX_SINGLE_TRADE_PCT * InitialBalance
              /\ \E k \in 1..Len(call.rejections) :
                    call.rejections[k] = [signal |-> over, reason |-> "Single trade"]
              /\ \E k \in 1..Len(call.approved) : call.approved[k] = under

\* C1: with strategies interleaving their filter and place steps, once the
\* fills of the placed orders are applied the total net exposure is at most
\* 75% of capital and capital minus exposure is at least 25% of capital.
C1_FillsKeepCapitalLimits ==
    LET exposure == get_net_exposure
        cash == RSub(R(InitialBalance), exposure)
    IN  /\ exposure[1] * 100 <= MAX_TOTAL_EXPOSURE_PCT * InitialBalance * exposure[2]
        /\ cash[1] * 100 >= CASH_BUFFER_PCT * InitialBalance * cash[2]

\* The YES fill a NO fill is equivalent to: the opposite action at 1 - p for
\* the same quantity.
YesEquivalentFill(fill) ==
    [fill EXCEPT !.side = "yes",
                 !.action = IF fill.action = "buy" THEN "sell" ELSE "buy"]

\* C11: a NO fill (action a, price p, quantity q) leaves the position with
\* the net_contracts, avg_entry_price and realized P&L that the YES fill with
\* the opposite action at price 1 - p and quantity q gives from the same
\* starting position.
C11_NoFillEqualsYesEquivalent ==
    [][ ( /\ Len(trade_history') = Len(trade_history) + 1
          /\ trade_history'[Len(trade_history')].side = "no" ) =>
          LET rec == trade_history'[Len(trade_history')]
              pos == PositionOf(rec.ticker)
              yes_fill == YesEquivalentFill(FillOfRecord(rec))
              fee == calculate_fee(yes_fill.count, PriceCents(yes_fill), rec.is_maker)
              b == FillBranch(pos, yes_fill)
          IN  /\ positions'[rec.ticker].net_contracts = b.net
              /\ positions'[rec.ticker].avg_entry_price = b.avg
              /\ positions'[rec.ticker].realized_pnl
                    = IF b.booked THEN RAdd(pos.realized_pnl, RSub(b.pnl, R(fee)))
                      ELSE pos.realized_pnl ]_vars

\* The best price of the opposing side of the book for an order, in cents of
\* the order's own side, 0 when that side is empty: the lowest ask for a buy
\* (1 - the highest bid of the other side), the highest bid for a sell.
HighestBid(levels) ==
    IF levels = <<>> THEN 0
    ELSE CHOOSE p \in {levels[i][1] : i \in DOMAIN levels} :
            \A i \in DOMAIN levels : levels[i][1] <= p

BestOpposingPrice(order) ==
    IF order.ticker \notin DOMAIN books THEN 0
    ELSE LET own == IF order.side = "yes" THEN books[order.ticker].yes_bids
                    ELSE books[order.ticker].no_bids
             other == IF order.side = "yes" THEN books[order.ticker].no_bids
                      ELSE books[order.ticker].yes_bids
         IN  IF order.action = "buy"
             THEN (IF other = <<>> THEN 0 ELSE 100 - HighestBid(other))
             ELSE HighestBid(own)

OrderPrice(order) == IF order.side = "yes" THEN order.yes_price ELSE order.no_price

Crosses(order) ==
    /\ BestOpposingPrice(order) > 0
    /\ IF order.action = "buy" THEN OrderPrice(order) >= BestOpposingPrice(order)
       ELSE OrderPrice(order) <= BestOpposingPrice(order)

\* C12: a taker order fills exactly when its price crosses the best opposing
\* price (buy: price >= best ask; sell: price <= best bid).  When it crosses,
\* try_fill adds exactly one taker Fill for the order's full count at the best
\* opposing price; otherwise it adds no Fill; in neither case does it add a
\* resting order.
C12_TakerFillsIffCrossing ==
    [][ \A order \in PaperRequests : ~order.post_only =>
          /\ (TryFillOutcome(order) = "fill") <=> Crosses(order)
          /\ try_fill(order) =>
                /\ resting' = resting
                /\ IF Crosses(order)
                   THEN /\ Len(fills') = Len(fills) + 1
                        /\ SubSeq(fills', 1, Len(fills)) = fills
                        /\ LET fill == fills'[Len(fills')]
                           IN  /\ fill.is_taker
                               /\ fill.ticker = order.ticker
                               /\ fill.side = order.side
                               /\ fill.action = order.action
                               /\ fill.count = order.count
                               /\ PriceCents(fill) = BestOpposingPrice(order)
                   ELSE fills' = fills ]_vars

\* The contracts the book displays at an order's price on the order's side:
\* its own bids for a buy, the asks of its side for a sell, an ask at p being
\* a bid of the other side at 1 - p.
DisplayedDepth(ticker, side, action, price) ==
    IF ticker \notin DOMAIN books THEN 0
    ELSE LET own == IF side = "yes" THEN books[ticker].yes_bids ELSE books[ticker].no_bids
             other == IF side = "yes" THEN books[ticker].no_bids ELSE books[ticker].yes_bids
         IN  IF action = "buy" THEN VolumeAt(own, price) ELSE VolumeAt(other, 100 - price)

\* C13: a maker-only (post_only) order never fills in try_fill, even when its
\* price crosses the book: the call adds no Fill and appends exactly one
\* resting order, for the order's market, side, action, price and count, with
\* filled = 0 and queue_ahead equal to the depth displayed at its price on
\* its side.
C13_MakerOrderOnlyQueues ==
    [][ \A order \in PaperRequests : (order.post_only /\ try_fill(order)) =>
          /\ fills' = fills
          /\ fill_count' = fill_count
          /\ Len(resting') = Len(resting) + 1
          /\ SubSeq(resting', 1, Len(resting)) = resting
          /\ LET r == resting'[Len(resting')]
             IN  /\ r.ticker = order.ticker
                 /\ r.side = order.side
                 /\ r.action = order.action
                 /\ r.price = OrderPrice(order)
                 /\ r.count = order.count
                 /\ r.filled = 0
                 /\ r.queue_ahead = DisplayedDepth(order.ticker, order.side,
                                                   order.action, OrderPrice(order)) ]_vars

\* A maker order whose price crosses the book has just been queued unfilled,
\* with no Fill emitted.
C13_Witness ==
    /\ fills = <<>>
    /\ \E i \in DOMAIN resting :
          /\ resting[i].filled = 0
          /\ resting[i].created_at = now
          /\ Crosses([ticker |-> resting[i].ticker, side |-> resting[i].side,
                      action |-> resting[i].action,
                      yes_price |-> IF resting[i].side = "yes" THEN resting[i].price ELSE 0,
                      no_price |-> IF resting[i].side = "no" THEN resting[i].price ELSE 0])
          /\ resting[i].queue_ahead
                = DisplayedDepth(resting[i].ticker, resting[i].side,
                                 resting[i].action, resting[i].price)

\* C14: process_trade emits no Fill for an order whose queue_ahead the
\* trade's volume does not exceed: the volume first drains queue_ahead and
\* only what is left over fills the order.  Each order that gains contracts
\* gets one maker Fill, for the quantity it gained, at the order's own limit
\* price.
C14_QueueDrainsBeforeFill ==
    [][ \A t \in PaperTickers, sd \in {"yes", "no"}, p \in PaperTradePrices, c \in {1, 3} :
          process_trade(t, sd, p, c) =>
            LET gained(o) ==
                    LET after == C5_RestingOf(o.order_id, resting')
                    IN  IF after = <<>> THEN o.count - o.filled
                        ELSE after[1].filled - o.filled
                touched == SelectSeq(resting, LAMBDA o : gained(o) > 0)
                new == SubSeq(fills', Len(fills) + 1, Len(fills'))
            IN  /\ SubSeq(fills', 1, Len(fills)) = fills
                /\ Len(new) = Len(touched)
                /\ \A k \in 1..Len(touched) :
                      /\ touched[k].queue_ahead < c
                      /\ gained(touched[k]) <= c - touched[k].queue_ahead
                      /\ ~new[k].is_taker
                      /\ new[k].ticker = touched[k].ticker
                      /\ new[k].side = touched[k].side
                      /\ new[k].action = touched[k].action
                      /\ new[k].count = gained(touched[k])
                      /\ PriceCents(new[k]) = touched[k].price
                /\ \A i \in 1..Len(resting) :
                      LET after == C5_RestingOf(resting[i].order_id, resting')
                      IN  (after # <<>> /\ after[1].queue_ahead > 0)
                            => gained(resting[i]) = 0 ]_vars

\* C15: cancel_resting_orders and expire_stale_orders remove orders without
\* emitting a Fill and without a fill notification reaching the position
\* tracker.  Expiry removes exactly the orders older than the time-to-live,
\* cancel exactly the orders of the market given (all of them when none is
\* given); every other order stays, unchanged and in place.
C15_Removed(before, after) ==
    {before[i] : i \in DOMAIN before} \ {after[i] : i \in DOMAIN after}

C15_RemovalIsSilent(selected(_)) ==
    /\ fills' = fills
    /\ fill_count' = fill_count
    /\ total_maker_orders_filled' = total_maker_orders_filled
    /\ trackerVars' = trackerVars
    /\ C15_Removed(resting, resting') = {resting[i] : i \in {j \in DOMAIN resting : selected(resting[j])}}
    /\ resting' = SelectSeq(resting, LAMBDA o : o \in {resting'[i] : i \in DOMAIN resting'})

C16_FailureReturnsAbsentResult ==
    [][ (inflight # NoRequest /\ returned'.client = "failed") =>
          /\ ~returned'.raised
          /\ ~returned'.ok
          /\ returned'.orders = <<>>
          /\ returned'.count = 0
          /\ orders' = orders ]_vars

\* A cancel_all_orders over two resting orders has failed and both are still
\* resting locally.
C16_Witness ==
    /\ returned.op = "cancel_all_orders"
    /\ returned.client = "failed"
    /\ Len(orders) = 2
    /\ \A i \in DOMAIN orders : orders[i].status = "resting"

\* C17: in live mode an order's local status becomes "canceled" only in the
\* step in which the exchange's answer to a cancel of that order arrives.
\* While the request is outstanding, and when it fails, the status stays as
\* it was, for cancel_order(id) and for cancel_all_orders alike.
C17_CanceledOnlyAfterConfirmation ==
    [][ \A i \in DOMAIN orders :
          (orders[i].status # "canceled" /\ orders'[i].status = "canceled") =>
             /\ inflight.op \in {"cancel_order", "batch_cancel_orders"}
             /\ \E k \in DOMAIN inflight.order_ids :
                   inflight.order_ids[k] = orders[i].order_id
             /\ returned'.client = "ok"
             /\ ~\E j \in DOMAIN exchange_orders' :
                   exchange_orders'[j].order_id = orders[i].order_id ]_vars

\* One order is canceled after the exchange confirmed, and a cancel of the
\* other is outstanding with the order still resting locally.
C17_Witness ==
    /\ inflight.op \in {"cancel_order", "batch_cancel_orders"}
    /\ \E i, j \in DOMAIN orders :
          /\ orders[i].status = "canceled"
          /\ orders[j].status = "resting"
          /\ \E k \in DOMAIN inflight.order_ids : inflight.order_ids[k] = orders[j].order_id

\* C18: after sync_with_exchange has applied a snapshot of the exchange's
\* positions, every market of the snapshot has local net_contracts equal to
\* the exchange's count (a position missing locally is created), every
\* market absent from the snapshot is as it was, and applying the same
\* snapshot again changes nothing.
C18_SyncMatchesExchangeIdempotent ==
    [][ \A market_positions \in SyncSnapshots :
          sync_with_exchange(market_positions) =>
            LET listed == {market_positions[i].market_ticker : i \in DOMAIN market_positions}
            IN  /\ DOMAIN positions' = DOMAIN positions \cup listed
                /\ \A i \in DOMAIN market_positions :
                      positions'[market_positions[i].market_ticker].net_contracts
                          = market_positions[i].position
                /\ \A t \in DOMAIN positions \ listed : positions'[t] = positions[t]
                /\ SyncedPositions(positions', market_positions) = positions' ]_vars

\* A reconciliation has overwritten a count the fills do not add up to and
\* has created the position of a market the ledger had no fill for.
C18_Witness ==
    /\ trade_history # <<>>
    /\ DOMAIN positions = {"KXBTCD-26FEB14-T70000", "KXBTCD-26FEB14-T71000"}
    /\ positions["KXBTCD-26FEB14-T70000"].net_contracts = -100
    /\ positions["KXBTCD-26FEB14-T70000"].total_bought
          - positions["KXBTCD-26FEB14-T70000"].total_sold # -100
    /\ positions["KXBTCD-26FEB14-T71000"].net_contracts = 10

\* C19: after update_from_rest(M, snapshot), get_depth(M, "yes_bid", N) is
\* exactly the first N of the snapshot's YES levels in descending price
\* order (all of them when there are fewer than N), and no level of the
\* book M had before is left: the book's YES and NO levels are the
\* snapshot's.
C19_LevelSet(levels) == {levels[i] : i \in DOMAIN levels}

C19_DepthIsTopOfSnapshot ==
    [][ \A t \in PaperTickers, ob \in BookSnapshots :
          update_from_rest(t, ob) =>
            /\ C19_LevelSet(books'[t].yes_bids) = C19_LevelSet(ob.yes_bids)
            /\ Len(books'[t].yes_bids) = Len(ob.yes_bids)
            /\ C19_LevelSet(books'[t].no_bids) = C19_LevelSet(ob.no_bids)
            /\ Len(books'[t].no_bids) = Len(ob.no_bids)
            /\ \A N \in 1..MaxDepthLevels :
                  LET depth == DepthOf(books', t, "yes_bid", N)
                  IN  /\ Len(depth) = Min(N, Len(ob.yes_bids))
                      /\ C19_LevelSet(depth) \subseteq C19_LevelSet(ob.yes_bids)
                      /\ \A i \in 1..(Len(depth) - 1) : depth[i][1] > depth[i + 1][1]
                      /\ \A level \in C19_LevelSet(ob.yes_bids) \ C19_LevelSet(depth) :
                            level[1] < depth[Len(depth)][1] ]_vars

\* The book holds the four-level snapshot that listed its levels out of
\* order, and a depth of two is its two highest bids.
C19_Witness ==
    /\ "KXBTCD-26FEB14-T70000" \in DOMAIN books
    /\ books["KXBTCD-26FEB14-T70000"].yes_bids
          = <<<<57, 2>>, <<50, 1>>, <<43, 4>>, <<29, 2>>>>
    /\ get_depth("KXBTCD-26FEB14-T70000", "yes_bid", 2) = <<<<57, 2>>, <<50, 1>>>>

\* C20: for every book and every single-level delta (price, qty), also with
\* qty <= 0 and with a price the book has no level at, applying the delta a
\* second time leaves the book as the first application made it.
C20_DeltaIdempotent ==
    \A t \in PaperTickers, delta \in BookDeltas :
        DeltaApplied(DeltaApplied(books, t, delta), t, delta) = DeltaApplied(books, t, delta)

\* Deltas have removed the level at 57 cents and inserted one at 64 cents
\* ahead of the level the snapshot left.
C20_Witness ==
    /\ "KXBTCD-26FEB14-T70000" \in DOMAIN books
    /\ books["KXBTCD-26FEB14-T70000"].yes_bids = <<<<64, 2>>, <<29, 1>>>>

\* C21: after any sequence of update_from_rest and update_from_delta calls,
\* each side of every book is sorted by price descending and has no two
\* levels with the same price: every level's price is strictly above the
\* next level's.
C21_StrictlyDescending(bids) ==
    \A i \in 1..(Len(bids) - 1) : bids[i][1] > bids[i + 1][1]

C22_NoData(op) ==
    CASE op = "get_total_volume_at_price" -> 0
      [] op = "has_book" -> FALSE
      [] OTHER -> <<>>

C22_QueriesReadOnly ==
    \A op \in BookQueryOps, t \in BookQueryTickers, side \in BookQuerySides :
        \A arg \in BookQueryArgs(op) :
            /\ BooksAfterLookup(books, t) = books
            /\ t \notin DOMAIN books => QueryReturn(op, t, side, arg) = C22_NoData(op)

\* One market has a book with levels, and has_book has just answered False
\* for a market without one.
C22_Witness ==
    /\ DOMAIN books = {"KXBTCD-26FEB14-T70000"}
    /\ books["KXBTCD-26FEB14-T70000"].yes_bids # <<>>
    /\ call.op = "has_book"
    /\ call.ret = FALSE

\* C23: after update_market_prices(prices), every position with
\* net_contracts = 0 shows an unrealized P&L of exactly zero, and every
\* position with |net_contracts| > 0 that has a price in prices shows
\* (price - avg_entry_price) x net_contracts.
C23_MarkedToMarket ==
    [][ \A prices \in MarkPrices :
          UpdatePositionPrices(prices) =>
            \A t \in DOMAIN positions' :
               LET pos == positions'[t]
               IN  /\ pos.net_contracts = 0 => pos.unrealized_pnl = R(0)
                   /\ pos.net_contracts # 0 /\ t \in DOMAIN prices =>
                        pos.unrealized_pnl
                          = RMul(RSub(R(prices[t]), pos.avg_entry_price),
                                 R(pos.net_contracts)) ]_vars

\* C24: the first read of daily P&L after a UTC date rollover returns zero,
\* later reads on the same date do not reset it again (they return the
\* accumulated value and leave it), and weekly P&L is never reset: no step
\* changes it except by the realized P&L a fill books, so it stays the sum
\* of the positions' realized P&L from the start of the session.
RECURSIVE C24_SumRealized(_, _)
C24_SumRealized(ledger, tickers) ==
    IF tickers = {} THEN R(0)
    ELSE LET t == CHOOSE x \in tickers : TRUE
         IN  RAdd(ledger[t].realized_pnl, C24_SumRealized(ledger, tickers \ {t}))

C24_DailyResetsOnceWeeklyNever ==
    [][ /\ ReadDailyPnl =>
             /\ today # daily_reset_date => DailyPnlRead = R(0) /\ daily_pnl' = R(0)
             /\ today = daily_reset_date =>
                    DailyPnlRead = daily_pnl /\ daily_pnl' = daily_pnl
             /\ daily_reset_date' = today
        /\ daily_reset_date' # daily_reset_date => ReadDailyPnl
        /\ Len(trade_history') = Len(trade_history) => weekly_pnl' = weekly_pnl
        /\ weekly_pnl' = C24_SumRealized(positions', DOMAIN positions') ]_vars

\* The second day of the session: the day's first read has returned zero
\* and moved the reset date, and the loss of the first day is still in the
\* weekly figure.
C24_Witness ==
    /\ today = 2
    /\ daily_reset_date = 2
    /\ daily_pnl = R(0)
    /\ RLt(weekly_pnl, R(0))
    /\ call.op = "check_kill_switch"

\* C25: the RiskManager never changes the ledgers it reads: filter_signals,
\* should_flatten_all and get_available_capital leave the PositionTracker
\* (positions, daily and weekly P&L accumulators, reset date, trade history)
\* and the OrderManager's order records as they were.
C25_RiskCall ==
    \/ call'.op = "filter_signals" /\ \E signals \in GateSignalLists : filter_signals(signals)
    \/ call'.op = "should_flatten_all" /\ should_flatten_all
    \/ call'.op = "get_available_capital" /\ get_available_capital

C25_RiskGateReadsOnly ==
    [][ C25_RiskCall => UNCHANGED <<trackerVars, orders>> ]_vars

\* C26: update_from_fill(fill) changes the PositionState of the fill's
\* market only (every other market's PositionState is what it was, and no
\* market is added or dropped but the fill's), and it appends exactly one
\* TradeRecord, the fill's, to the history; no step of any operation
\* modifies or removes an earlier history entry.  A step of update_from_fill
\* is one that charges a fee: every fill's fee is at least one cent.
C26_FillTouchesOneMarketAppendsOne ==
    [][ /\ Len(trade_history') >= Len(trade_history)
        /\ SubSeq(trade_history', 1, Len(trade_history)) = trade_history
        /\ total_fees_paid' # total_fees_paid <=>
               Len(trade_history') = Len(trade_history) + 1
        /\ Len(trade_history') = Len(trade_history) + 1 =>
               LET rec == trade_history'[Len(trade_history')]
               IN  /\ rec.ticker \in GateTickers
                   /\ DOMAIN positions' = DOMAIN positions \cup {rec.ticker}
                   /\ \A t \in DOMAIN positions \ {rec.ticker} :
                         positions'[t] = positions[t]
                   /\ positions'[rec.ticker].total_bought
                         + positions'[rec.ticker].total_sold
                       = PositionOf(rec.ticker).total_bought
                         + PositionOf(rec.ticker).total_sold + rec.contracts ]_vars

\* Two markets have positions and the last fill was on the second: the
\* position and the history entry of the first are as its fill left them.
C26_Witness ==
    /\ DOMAIN positions = {T70, E30}
    /\ Len(trade_history) = 2
    /\ trade_history[1].ticker = T70
    /\ trade_history[2].ticker = E30
    /\ positions[T70].net_contracts = 40
    /\ positions[E30].net_contracts = -40

\* C27: place_order with a price outside 1 to 99 cents or with a count <= 0
\* is rejected before matching: no Order is returned or recorded by the
\* OrderManager, no resting order is created in the paper engine and no
\* Fill is produced.
C27_Malformed(request) ==
    \/ request.yes_price < 1
    \/ request.yes_price > 99
    \/ request.count <= 0

C27_MalformedOrderRejected ==
    [][ \A request \in PlaceRequests :
          (C27_Malformed(request) /\ PlacePaperOrder(request)) =>
              UNCHANGED <<orders, resting, fills>> ]_vars

\* C28: should_flatten_all returns true exactly when the manual override is
\* set or the day's P&L is below -(2 x 5% of capital), whatever the state of
\* the kill switch, and it changes neither the kill-switch flag nor the
\* override flag.
C28_FlattenOnOverrideOrDoubleLoss ==
    [][ (call'.op = "should_flatten_all" /\ should_flatten_all) =>
          /\ call'.ret = ( \/ manual_override
                           \/ BelowLossLimit(C4_DailyPnlToday, 2 * DAILY_LOSS_LIMIT_PCT) )
          /\ UNCHANGED <<kill_switch_active, manual_override>> ]_vars

\* C29: for every mid price from 1 to 99 cents and every contracts > 0,
\* min_profitable_spread ends within its 100 search steps and returns a
\* positive whole-cent spread s such that buying at price - s/2 and selling
\* at price + s/2, both sides with the given maker flag, gives a strictly
\* positive net profit after both fees.
C29_SpreadIsProfitable ==
    fee_out.steps > 0 =>
        /\ fee_out.steps <= 100
        /\ fee_out.spread > 0
        /\ NetProfitHalf(2 * fee_in.price - fee_out.spread,
                         2 * fee_in.price + fee_out.spread,
                         fee_in.contracts, fee_in.is_maker) > 0


\* C30: on each transition of the kill switch from armed to tripped exactly
\* one attempt to cancel every resting order is issued to the OrderManager
\* (in paper mode the attempt marks every resting order canceled); while the
\* switch stays tripped the risk manager issues no further attempt, so its
\* calls leave the order records as they are.
C30_Tripping == ~kill_switch_active /\ kill_switch_active'

C30_TrippingCancelsRestingOnce ==
    [][ /\ C30_Tripping =>
              \A i \in 1..Len(orders) :
                  orders[i].status = "resting" => orders'[i].status = "canceled"
        /\ (kill_switch_active /\ call'.op \in {"check_kill_switch", "filter_signals"})
              => orders' = orders ]_vars

\* C31: a resting order leaves the resting set in the process_trade call in
\* which its filled count reaches its count, so no order with
\* filled = count > 0 is ever in the resting set; the call adds one to the
\* count of filled orders for each order it removes, and a removed order
\* never rests again (every order of the resting set was in it before or is
\* newly registered), so it is never drained, matched or filled again.
C31_OrderIds(book) == {book[i].order_id : i \in DOMAIN book}

C31_MakerFillStep ==
    /\ Len(fills') > Len(fills)
    /\ ~fills'[Len(fills')].is_taker

C31_FilledOrderLeavesOnce ==
    [][ /\ \A i \in DOMAIN resting' :
              resting'[i].count > 0 => resting'[i].filled < resting'[i].count
        /\ C31_OrderIds(resting') \subseteq C31_OrderIds(resting) \cup {next_order_id}
        /\ next_order_id \in C31_OrderIds(resting') => next_order_id' > next_order_id
        /\ C31_MakerFillStep =>
              /\ total_maker_orders_filled' - total_maker_orders_filled
                    = Cardinality(C31_OrderIds(resting) \ C31_OrderIds(resting'))
              /\ \A i \in DOMAIN resting :
                    resting[i].order_id \notin C31_OrderIds(resting')
                        => \E k \in (Len(fills) + 1)..Len(fills') :
                              fills'[k].count = Remaining(resting[i]) ]_vars

\* One trade has filled the first order, which is gone and counted, and part
\* of the second, which still rests.
C31_Witness ==
    /\ total_maker_orders_filled = 1
    /\ Len(resting) = 1
    /\ resting[1].order_id = 2
    /\ resting[1].filled = 1
    /\ Len(fills) = 2

\* The resting orders a step has drained or filled: gone, or resting with
\* another queue_ahead or filled count.
C32_Touched(o) ==
    LET after == C5_RestingOf(o.order_id, resting')
    IN  \/ after = <<>>
        \/ after[1].queue_ahead # o.queue_ahead
        \/ after[1].filled # o.filled

\* A step of process_trade(ticker, side, price_cents, count) that drains or
\* fills an order.
C32_TradeStep(ticker, side, price_cents, count) ==
    /\ resting' # resting
    /\ fill_count' >= fill_count
    /\ total_maker_orders_cancelled' = total_maker_orders_cancelled
    /\ total_maker_orders_expired' = total_maker_orders_expired
    /\ total_maker_orders_placed' = total_maker_orders_placed
    /\ process_trade(ticker, side, price_cents, count)

\* C32 as stated: process_trade drains or fills only resting orders on the
\* traded market and side whose limit price is within 0.5 cent of the trade
\* price (the same price in whole cents); an order priced further away keeps
\* its queue_ahead and filled count.
C32_OnlyOrdersAtTradePrice ==
    [][ \A tr \in QueueTrades :
          C32_TradeStep(tr.ticker, tr.side, tr.price_cents, tr.count) =>
            \A i \in DOMAIN resting :
                C32_Touched(resting[i]) =>
                    /\ resting[i].ticker = tr.ticker
                    /\ resting[i].side = tr.side
                    /\ resting[i].price = tr.price_cents ]_vars

\* C32: process_trade drains or fills only resting orders on the traded
\* market and side whose limit price is within 0.5 cent of the trade price
\* or beyond it in the order's favour: a buy order priced at or above the
\* trade price, a sell order priced at or below it.  A buy order priced more
\* than 0.5 cent below the trade price, a sell order priced more than 0.5
\* cent above it and every order of another market or side keep their
\* queue_ahead and filled count.
C32_OnlyOrdersAtTradePriceOrBetter ==
    [][ \A tr \in QueueTrades :
          C32_TradeStep(tr.ticker, tr.side, tr.price_cents, tr.count) =>
            \A i \in DOMAIN resting :
                C32_Touched(resting[i]) =>
                    /\ resting[i].ticker = tr.ticker
                    /\ resting[i].side = tr.side
                    /\ resting[i].action = "buy" => tr.price_cents <= resting[i].price
                    /\ resting[i].action = "sell" => tr.price_cents >= resting[i].price ]_vars

\* A sell order at 59 cents, registered first, still rests untouched after a
\* trade has filled the buy order at 57 cents registered after it.
C32_Witness ==
    /\ Len(resting) = 1
    /\ resting[1].order_id = 1
    /\ resting[1].action = "sell" /\ resting[1].price = 59
    /\ resting[1].filled = 0 /\ resting[1].queue_ahead = 1
    /\ total_maker_orders_filled = 1
    /\ Len(fills) = 1
    /\ fills[1].action = "buy"

\* A step of process_trade that drains or fills an order: the queue changes,
\* no order is placed, cancelled or expired, and every order that leaves is
\* counted as filled.
C33_TradeStep ==
    /\ resting' # resting
    /\ total_maker_orders_placed' = total_maker_orders_placed
    /\ total_maker_orders_cancelled' = total_maker_orders_cancelled
    /\ total_maker_orders_expired' = total_maker_orders_expired
    /\ total_maker_orders_filled' - total_maker_orders_filled
          = Cardinality(C31_OrderIds(resting) \ C31_OrderIds(resting'))

\* C33: among resting orders of the same market, side, action and price a
\* trade serves the earlier registered first: when an order has its
\* queue_ahead drained or receives a fill, every order registered before it
\* at the same market, side, action and price has been fully filled by that
\* trade (it has left the queue), the ones filled before having left already.
C33_ServedInRegistrationOrder ==
    [][ C33_TradeStep =>
          \A i, j \in DOMAIN resting :
              ( /\ i < j
                /\ resting[i].ticker = resting[j].ticker
                /\ resting[i].side = resting[j].side
                /\ resting[i].action = resting[j].action
                /\ resting[i].price = resting[j].price
                /\ C32_Touched(resting[j]) )
              => resting[i].order_id \notin C31_OrderIds(resting') ]_vars

\* One trade of 3 contracts has filled the first of two orders at the same
\* price and given the rest to the second.
C33_Witness ==
    /\ Len(resting) = 1
    /\ resting[1].order_id = 2
    /\ resting[1].filled = 1
    /\ total_maker_orders_filled = 1
    /\ Len(fills) = 2
    /\ fills[1].count = 2 /\ fills[2].count = 1
    /\ fills[1].action = resting[1].action
    /\ fills[2].action = resting[1].action
    /\ fills[1].yes_price = fills[2].yes_price

\* C34: in paper mode every Fill the simulator has produced, the taker fills
\* of place and the maker fills of process_trade alike, has been applied to
\* update_from_fill exactly once and in the order of production: the trade
\* history lists the fills one for one.
C34_EveryFillAppliedOnceInOrder ==
    /\ Len(trade_history) = Len(fills)
    /\ \A k \in DOMAIN fills :
          /\ trade_history[k].ticker = fills[k].ticker
          /\ trade_history[k].side = fills[k].side
          /\ trade_history[k].action = fills[k].action
          /\ trade_history[k].contracts = fills[k].count
          /\ trade_history[k].price = PriceCents(fills[k])
          /\ trade_history[k].is_maker = ~fills[k].is_taker

\* sum of the contracts that still rest in the simulator for a market
RECURSIVE C38_SimulatorResting(_, _)
C38_SimulatorResting(book, ticker) ==
    IF book = <<>> THEN 0
    ELSE (IF Head(book).ticker = ticker THEN Remaining(Head(book)) ELSE 0)
         + C38_SimulatorResting(Tail(book), ticker)

\* C38: in paper mode the OrderManager and the simulator agree on what rests:
\* for every market the resting contracts the risk manager counts
\* (remaining_count of get_open_orders) are the contracts still resting in
\* the simulator, so an order fully filled or expired there is no longer
\* reported as resting; and no maker Fill is produced in a market where the
\* OrderManager reports no open order, as it would be for an order it has
\* marked canceled.
C38_LedgerAgreesWithSimulator ==
    [][ /\ \A t \in {T70} :
              (SumRemaining(get_open_orders(t)))' = (C38_SimulatorResting(resting, t))'
        /\ \A k \in (Len(fills) + 1)..Len(fills') :
              ~fills'[k].is_taker => get_open_orders(fills'[k].ticker) # <<>> ]_vars

\* The YES-equivalent fill a TradeRecord stands for: its price in cents and
\* its signed quantity (a YES buy and a NO sell add to the position).
C35_YesPrice(rec) == IF rec.side = "yes" THEN rec.price ELSE 100 - rec.price

C35_Signed(rec) ==
    IF (rec.side = "yes") = (rec.action = "buy") THEN rec.contracts ELSE -rec.contracts

\* C35: after update_from_fill, whenever the position is open, its
\* avg_entry_price is the volume-weighted average YES-equivalent price of the
\* open portion: a fill that extends the position gives
\* (avg x |net| + price x qty) / (|net| + qty), a fill that only reduces it
\* leaves avg as it was, and a fill that flips the sign of the position
\* leaves avg at the fill's price.
C35_AvgIsVolumeWeighted ==
    [][ Len(trade_history') = Len(trade_history) + 1 =>
          LET rec == trade_history'[Len(trade_history')]
              old == PositionOf(rec.ticker)
              new == positions'[rec.ticker]
              price == R(C35_YesPrice(rec))
              signed == C35_Signed(rec)
              qty == rec.contracts
              net == old.net_contracts
          IN  new.net_contracts # 0 =>
                IF net = 0 \/ (net > 0) = (signed > 0)
                THEN new.avg_entry_price
                        = RDiv(RAdd(RMul(old.avg_entry_price, R(Abs(net))),
                                    RMul(price, R(qty))),
                               R(Abs(net) + qty))
                ELSE IF qty < Abs(net)
                THEN new.avg_entry_price = old.avg_entry_price
                ELSE new.avg_entry_price = price ]_vars

\* The approved list filter_signals(signals) returns from the current state.
C36_Approved(signals) ==
    IF CheckKillSwitchResult.ret THEN <<>>
    ELSE FilterLoop(signals, 1, [approved |-> <<>>, rejections |-> <<>>]).approved

\* C36: filter reserves nothing.  A filter call that approves a proposal
\* changes no state of the risk manager, the position tracker (the date of
\* its last daily reset left aside) or the order manager, nor the daily
\* figure the rules read, so a strategy filtering after another one, with
\* no placement or fill between, fares as if it were alone; and right after
\* any filter call the same call returns the same approved list.
C36_FilterReservesNothing ==
    /\ [](call.op = "filter_signals" => C36_Approved(call.signals) = call.approved)
    /\ [][ call'.op = "filter_signals" /\ call'.approved # <<>> =>
             /\ UNCHANGED <<riskVars, orders, positions, trade_history, daily_pnl,
                            weekly_pnl, total_fees_paid>>
             /\ DailyPnlRead' = DailyPnlRead ]_vars


\* C37: no realized loss is dropped from the daily total.  The figure the
\* daily_pnl property returns is the sum of what update_from_fill has booked
\* on the current UTC date, fills that came before the first read of the day
\* included, and a check_kill_switch call on an armed switch with the
\* override off returns true and trips the switch as soon as that sum is
\* below -(5% of capital).
C37_NoLossDroppedFromDailyTotal ==
    /\ [](DailyPnlRead = C4_DailyPnlToday)
    /\ [][ ( /\ call'.op = "check_kill_switch"
             /\ ~kill_switch_active /\ ~manual_override
             /\ BelowLossLimit(C4_DailyPnlToday, DAILY_LOSS_LIMIT_PCT) )
             => call'.ret /\ kill_switch_active' ]_vars


\* C39: the simulator's counters balance.  After any sequence of maker
\* placements, process_trade, expire_stale_orders, cancel_resting_orders and
\* reset, the maker orders placed are the ones filled, expired, cancelled
\* and currently resting, each counted once.
C39_CountersBalance ==
    total_maker_orders_placed
        = total_maker_orders_filled + total_maker_orders_expired
            + total_maker_orders_cancelled + Len(resting)

\* C39 witness: of two maker orders placed, one was filled by trades and the
\* other expired or was cancelled.
C39_Witness ==
    /\ total_maker_orders_placed = 2
    /\ total_maker_orders_filled = 1
    /\ total_maker_orders_expired + total_maker_orders_cancelled = 1


\* The contracts a step has drained from the queue_ahead of a resting order;
\* an order that a trade removes had its queue_ahead drained to 0 first.
C40_Drained(o) ==
    LET after == C5_RestingOf(o.order_id, resting')
    IN  IF after = <<>> THEN Max(o.queue_ahead, 0)
        ELSE o.queue_ahead - after[1].queue_ahead

RECURSIVE C40_DrainedUpTo(_)
C40_DrainedUpTo(i) ==
    IF i = 0 THEN 0 ELSE C40_DrainedUpTo(i - 1) + C40_Drained(resting[i])

\* The contracts of the fills a step has emitted, from fill k on.
RECURSIVE C40_FilledFrom(_)
C40_FilledFrom(k) ==
    IF k > Len(fills') THEN 0 ELSE fills'[k].count + C40_FilledFrom(k + 1)

\* C40: within one process_trade call the contracts drained from queue_ahead
\* plus the contracts filled, summed over all orders, never exceed the
\* trade's count, and every Fill the call emits has a count of at least 1.
C40_TradeVolumeConserved ==
    [][ \A tr \in QueueTrades :
          C32_TradeStep(tr.ticker, tr.side, tr.price_cents, tr.count) =>
            /\ C40_DrainedUpTo(Len(resting)) + C40_FilledFrom(Len(fills) + 1)
                  <= tr.count
            /\ \A k \in (Len(fills) + 1)..Len(fills') : fills'[k].count >= 1 ]_vars

\* Trades have drained the queue ahead of two orders and filled the first in
\* two parts and one contract of the second, which still rests.
C40_Witness ==
    /\ Len(resting) = 1
    /\ resting[1].order_id = 2
    /\ resting[1].queue_ahead = 0
    /\ resting[1].filled = 1
    /\ total_maker_orders_filled = 1
    /\ Len(fills) = 3
    /\ \A k \in 1..3 : fills[k].count = 1

============================================================================
